---- MODULE Spec2Model ----
(***************************************************************************)
(* Model of the voice assistant's Workflow Manager (workflow_manager.py)   *)
(* together with the part of the command dispatcher                        *)
(* (voice_assistant_advanced.py, process_command) and of the Context Store *)
(* (context_manager.py) that drive it.                                     *)
(*                                                                         *)
(* Texts are TLA+ strings; Python's str.lower, str.strip, `in` and         *)
(* str.replace are computed character by character.  Time is counted in    *)
(* ticks of half a second (TicksPerSecond ticks per second), so that       *)
(* time.sleep(0.5) and time.sleep(2) are whole numbers of ticks.           *)
(* Every handler is one atomic action; the steps it takes in order are     *)
(* recorded in the history variable trace, its call and result in last.    *)
(***************************************************************************)
EXTENDS Integers, Sequences, FiniteSets, TLC

\* ------------------------------------------------------------------ bounds
\* The clock stops the model at MaxTime ticks.
MaxTime == 30
\* At most MaxSpawn processes are launched in one run.
MaxSpawn == 2
\* The count of consecutive unknown-profile answers saturates at MaxAttempts.
MaxAttempts == 2
\* next_step is called at most MaxCalls times on one plan.
MaxCalls == 5
\* At most MaxAdds entries are added to each history.
MaxAdds == 12
\* At most MaxQueued utterances are queued for speech.
MaxQueued == 3
\* The wall clock, in seconds, stops at MaxWall (two days and a little), and
\* short waits are taken in the first MaxBurst seconds of a day only.
MaxWall == 172900
MaxBurst == 60

\* ------------------------------------------------------------------ text
\* Python's None, distinct from every text the model uses.
None == "<None>"

UpperChars == "ABCDEFGHIJKLMNOPQRSTUVWXYZ"
LowerChars == "abcdefghijklmnopqrstuvwxyz"

CharAt(s, i) == SubSeq(s, i, i)

\* The upper-case letters, and the lower-case letter of each.
UpperSet == {CharAt(UpperChars, i) : i \in 1..Len(UpperChars)}
LowerOf ==
  [c \in UpperSet |->
     CharAt(LowerChars, CHOOSE i \in 1..Len(UpperChars) : CharAt(UpperChars, i) = c)]

\* str.lower() of one character (ASCII letters).
LowerChar(c) == IF c \in UpperSet THEN LowerOf[c] ELSE c

\* str.lower(), character by character
RECURSIVE LowerText(_)
LowerText(s) ==
  IF Len(s) = 0 THEN ""
  ELSE LowerChar(CharAt(s, 1)) \o LowerText(SubSeq(s, 2, Len(s)))

IsSpace(c) == c \in {" ", "\t", "\n"}

RECURSIVE LStrip(_)
LStrip(s) ==
  IF Len(s) > 0 /\ IsSpace(CharAt(s, 1)) THEN LStrip(SubSeq(s, 2, Len(s))) ELSE s

RECURSIVE RStrip(_)
RStrip(s) ==
  IF Len(s) > 0 /\ IsSpace(CharAt(s, Len(s))) THEN RStrip(SubSeq(s, 1, Len(s) - 1)) ELSE s

\* str.strip()
Strip(s) == RStrip(LStrip(s))

\* Python's `p in s` for texts.
Contains(p, s) ==
  \E i \in 1..(Len(s) - Len(p) + 1) : SubSeq(s, i, i + Len(p) - 1) = p

\* str.replace(old, new), leftmost non-overlapping occurrences (old non-empty).
RECURSIVE Replace(_, _, _)
Replace(s, old, new) ==
  IF Len(s) < Len(old) THEN s
  ELSE IF SubSeq(s, 1, Len(old)) = old
       THEN new \o Replace(SubSeq(s, Len(old) + 1, Len(s)), old, new)
       ELSE CharAt(s, 1) \o Replace(SubSeq(s, 2, Len(s)), old, new)

\* Python truthiness of an optional text: None and "" are falsy.
Truthy(x) == x # None /\ x # ""

\* ------------------------------------------------------------------ WorkflowState
IDLE == "idle"
BROWSER_STARTING == "browser_starting"
PROFILE_SELECTION == "profile_selection"
BROWSER_READY == "browser_ready"
SEARCHING == "searching"
VIDEO_PLAYING == "video_playing"
APP_OPENING == "app_opening"

WorkflowState ==
  {IDLE, BROWSER_STARTING, PROFILE_SELECTION, BROWSER_READY, SEARCHING,
   VIDEO_PLAYING, APP_OPENING}

\* ------------------------------------------------------------------ time
TicksPerSecond == 2
\* self.state_timeout = 10 (seconds)
state_timeout == 10
\* time.sleep(2) after a launch, time.sleep(0.5) after terminate()
SleepAfterLaunch == 2 * TicksPerSecond
SleepAfterTerminate == TicksPerSecond \div 2
\* max_history_items of the configuration, fallback=10
max_history_items == 10
\* ContextManager.max_history = 10
max_history == 10
\* InternetChecker cache_duration, fallback=30 (seconds)
cache_duration == 30
\* timedelta.seconds lies in 0..86399: the days are counted apart
SecondsPerDay == 86400
\* state_started_at = None
NoTime == -1
\* time.time() of the first instant of the run (never 0: the epoch is long past)
StartTime == 1

VARIABLES
  state,             \* WorkflowManager.state
  waiting_for,       \* WorkflowManager.waiting_for
  current_workflow,  \* WorkflowManager.current_workflow: NoWorkflow or a plan record
  browser_process,   \* WorkflowManager.browser_process: 0 (None) or a process handle
  selected_profile,  \* WorkflowManager.selected_profile
  current_url,       \* WorkflowManager.current_url
  state_started_at,  \* WorkflowManager.state_started_at
  current_task,      \* ContextManager.current_task
  last_app_mentioned,\* ContextManager.last_app_mentioned
  running,           \* VoiceAssistant.running
  tab_manager,       \* whether the Tab Directory was constructed (else it is None)
  heard,             \* the last utterance process_command handled, and how
  now,               \* time.time(), in ticks
  spawned,           \* number of processes launched so far (handles are 1..spawned)
  failed_attempts,   \* consecutive unknown-profile answers so far (history, saturating)
  last,              \* the last call: operation, arguments, prior state, result
  trace,             \* the steps the last call took, in order
  calls,             \* next_step calls made on the plan so far (history)
  conversation_history, \* ContextManager.conversation_history
  history,           \* ConversationHistory.history
  max_items,         \* ConversationHistory.max_items
  adds,              \* entries added so far to each of the two histories (history)
  tts_queue,         \* TTSEngine.tts_queue: the items not yet taken
  unfinished_tasks,  \* Queue.unfinished_tasks: items put and not yet task_done()
  is_speaking,       \* TTSEngine.is_speaking
  worker,            \* where _tts_worker is ("get", "speak", "exited") and its item
  played,            \* the utterances the worker has processed, in order (history)
  queued,            \* the utterances put so far; they are numbered 1..queued (history)
  caller,            \* where each calling thread is, and what was queued when it
                     \* began to wait (history)
  last_check,        \* InternetChecker.last_check, in seconds (NoTime: None)
  last_result,       \* InternetChecker.last_result
  wall               \* datetime.now(), in seconds

vars ==
  <<state, waiting_for, current_workflow, browser_process, selected_profile,
    current_url, state_started_at, current_task, last_app_mentioned, running,
    tab_manager, heard, now, spawned, failed_attempts, last, trace, calls,
    conversation_history, history, max_items, adds, tts_queue, unfinished_tasks,
    is_speaking, worker, played, queued, caller, last_check, last_result, wall>>

\* The plan's call count, the two histories, the speech engine and the
\* connectivity cache. They are exercised on their own further down: no
\* handler of the manager assigns them, and of process_command the responses
\* are followed in heard, not through the speech queue or the history.
components ==
  <<calls, conversation_history, history, max_items, adds, tts_queue,
    unfinished_tasks, is_speaking, worker, played, queued, caller, last_check,
    last_result, wall>>

\* ------------------------------------------------------------------ inputs
\* Browser names handed to handle_browser_opening.
BrowserNames == {"chrome", "Firefox"}

\* Profile arguments of handle_browser_opening (None and "" are both falsy;
\* "guest" is no alias).
ProfileArgs == {None, "", "Work", "guest"}

\* The ten spoken aliases.
ProfileAliases ==
  {"default", "me", "profile 1", "profile1", "1", "amaan",
   "profile 2", "profile2", "2", "work"}

\* The aliases in other letter cases and with surrounding blanks.
AliasVariants ==
  {"DEFAULT", "Me", "Profile 1", "PROFILE1", " 1 ", "AMAAN", "Amaan",
   "PROFILE 2", "Profile2", "2\n", "WORK", " Work"}

\* Texts that are no alias, also after lower-casing and trimming.
NonAliases == {"", "guest", "profile 3", "pro file 1", "open chrome", "works"}

ProfileInputs == ProfileAliases \cup AliasVariants \cup NonAliases

\* The texts tried where the profile mapping itself is not the subject.
FewProfileInputs == {"amaan", " Work", "guest"}

\* Tab titles the Tab Directory may report.
TabLists == {<<>>, <<"Google Search", "YouTube - Cats">>}
SiteNames == {"YouTube"}
Queries == {"funny cats"}
Platforms == {None, "youtube"}

\* The texts of the inputs, and str.lower() of each, computed once.
Texts ==
  BrowserNames \cup ProfileArgs \cup ProfileInputs \cup SiteNames \cup Queries
  \cup UNION {{tabs[i] : i \in DOMAIN tabs} : tabs \in TabLists}
LowerTable == [s \in Texts |-> LowerText(s)]

\* str.lower()
Lower(s) == IF s \in Texts THEN LowerTable[s] ELSE LowerText(s)

\* ------------------------------------------------------------------ history
\* One step of a handler: what it does (ev), to what (arg), the waiting_for of
\* a set_state (wf), and a number (n): the ticks of a sleep, the handle of the
\* process terminate() is called on.
Ev(ev, arg, n) == [ev |-> ev, arg |-> arg, wf |-> None, n |-> n]
SetState(new_state, wf) == [ev |-> "set_state", arg |-> new_state, wf |-> wf, n |-> 0]
Sleep(ticks) == Ev("sleep", "", ticks)

\* What process_command did with an utterance: the branches it ran in order,
\* the responses it spoke, what it launched itself (or None), and
\* what it returned ("True", "False", or the exception it raised).
Heard(command, branches, spoken, launched, returned) ==
  [command |-> command, from |-> state, branches |-> branches,
   spoken |-> spoken, launched |-> launched, returned |-> returned]
NotHeard == [command |-> None, from |-> None, branches |-> <<>>,
             spoken |-> <<>>, launched |-> None, returned |-> None]

\* A call as recorded in last: the operation, its arguments, the state it was
\* called in, the failed attempts before it, the plan that was active, and what
\* it returned: "pair" (success, message) or "none".
Call(op, a1, a2, ret, ok, msg) ==
  [op |-> op, a1 |-> a1, a2 |-> a2, from |-> state, tries |-> failed_attempts,
   plan |-> current_workflow.name, ret |-> ret, ok |-> ok, msg |-> msg]
Pair(ok, msg) == [ret |-> "pair", ok |-> ok, msg |-> msg]
ReturnsNone == [ret |-> "none", ok |-> FALSE, msg |-> None]

\* ------------------------------------------------------------------ WorkflowManager
\* current_workflow = None
NoWorkflow == [name |-> None, steps |-> <<>>, current_step |-> 0]

\* dict.get(key, default)
DictGet(d, k, default) == IF k \in DOMAIN d THEN d[k] ELSE default

\* profile_map of handle_profile_selection
selection_profile_map ==
  ("default" :> "Default") @@ ("me" :> "Default") @@
  ("profile 1" :> "Profile 1") @@ ("profile1" :> "Profile 1") @@
  ("1" :> "Profile 1") @@ ("amaan" :> "Profile 1") @@
  ("profile 2" :> "Profile 2") @@ ("profile2" :> "Profile 2") @@
  ("2" :> "Profile 2") @@ ("work" :> "Profile 2")

\* profile_map of _get_chrome_profile
chrome_profile_map ==
  ("default" :> "Default") @@ ("me" :> "Default") @@
  ("profile 1" :> "Profile 1") @@ ("profile1" :> "Profile 1") @@
  ("1" :> "Profile 1") @@ ("amaan" :> "Profile 1") @@
  ("profile 2" :> "Profile 2") @@ ("profile2" :> "Profile 2") @@
  ("2" :> "Profile 2") @@ ("work" :> "Profile 2")

_get_chrome_profile(profile_name) ==
  DictGet(chrome_profile_map, Lower(profile_name), "Default")

\* f'google-chrome --profile-directory="{profile_dir}"'
ChromeProfileCmd(profile_dir) ==
  "google-chrome --profile-directory=\"" \o profile_dir \o "\""

\* The fields a handler's steps read and write.
Fields ==
  [state |-> state, waiting_for |-> waiting_for,
   browser_process |-> browser_process, selected_profile |-> selected_profile,
   current_url |-> current_url, state_started_at |-> state_started_at,
   current_task |-> current_task, now |-> now, spawned |-> spawned]

\* The effect of one step on the fields.
Do(m, e) ==
  CASE e.ev = "set_state" ->
         [m EXCEPT !.state = e.arg, !.waiting_for = e.wf, !.state_started_at = m.now]
    [] e.ev = "set_task" -> [m EXCEPT !.current_task = e.arg]
    [] e.ev = "Popen" -> [m EXCEPT !.spawned = m.spawned + 1]
    [] e.ev = "browser_process = Popen" ->
         [m EXCEPT !.spawned = m.spawned + 1, !.browser_process = m.spawned + 1]
    [] e.ev = "selected_profile =" -> [m EXCEPT !.selected_profile = e.arg]
    [] e.ev = "current_url =" -> [m EXCEPT !.current_url = e.arg]
    [] e.ev = "sleep" -> [m EXCEPT !.now = m.now + e.n]
    [] OTHER -> m

\* The fields after the steps, taken in order.
RECURSIVE Exec(_, _)
Exec(m, steps) ==
  IF steps = <<>> THEN m ELSE Exec(Do(m, Head(steps)), Tail(steps))

\* A handler runs: its steps take effect in order and its result is returned.
Perform(op, a1, a2, steps, result) ==
  \E st \in {steps}, r \in {result} :
  \E m \in {Exec(Fields, st)} :
  /\ m.now <= MaxTime
  /\ m.spawned <= MaxSpawn
  /\ state' = m.state
  /\ waiting_for' = m.waiting_for
  /\ browser_process' = m.browser_process
  /\ selected_profile' = m.selected_profile
  /\ current_url' = m.current_url
  /\ state_started_at' = m.state_started_at
  /\ current_task' = m.current_task
  /\ now' = m.now
  /\ spawned' = m.spawned
  /\ trace' = st
  /\ last' = Call(op, a1, a2, r.ret, r.ok, r.msg)
  /\ UNCHANGED current_workflow

\* The callers of the speech engine: the thread that runs the assistant and
\* a thread that waits for the speech to end.
Callers == {"main", "waiter"}

\* The state after construction, with the plan and the history size given:
\* WorkflowManager.__init__, ContextManager.__init__, VoiceAssistant.__init__,
\* ConversationHistory.__init__, TTSEngine.__init__, InternetChecker.__init__.
Constructed(workflow, items) ==
  /\ state = IDLE
  /\ waiting_for = None
  /\ current_workflow = workflow
  /\ browser_process = 0
  /\ selected_profile = None
  /\ current_url = None
  /\ state_started_at = NoTime
  /\ current_task = None
  /\ last_app_mentioned = None
  /\ running = TRUE
  /\ tab_manager \in BOOLEAN
  /\ heard = NotHeard
  /\ now = StartTime
  /\ spawned = 0
  /\ failed_attempts = 0
  /\ last = Call("__init__", None, None, "none", FALSE, None)
  /\ trace = <<>>
  /\ calls = 0
  /\ conversation_history = <<>>
  /\ history = <<>>
  /\ max_items = items
  /\ adds = [context |-> 0, history |-> 0]
  /\ tts_queue = <<>>
  /\ unfinished_tasks = 0
  /\ is_speaking = FALSE
  /\ worker = [pc |-> "get", item |-> 0]
  /\ played = <<>>
  /\ queued = 0
  /\ caller = [c \in Callers |-> [pc |-> "idle", mark |-> 0]]
  /\ last_check = NoTime
  /\ last_result = FALSE
  /\ wall = 0

\* A fresh assistant: no plan, and the history size of the configuration's
\* fallback.
Init == Constructed(NoWorkflow, max_history_items)

\* An expiry test that counts from the epoch while no state has been set.
is_state_expired_at_FromStart(t, started) ==
  (t - (IF started = NoTime THEN 0 ELSE started)) > state_timeout * TicksPerSecond

\* is_state_expired() evaluated at time t with the given state_started_at
is_state_expired_at(t, started) ==
  IF started # NoTime /\ started # 0
  THEN (t - started) > state_timeout * TicksPerSecond
  ELSE FALSE

is_state_expired == is_state_expired_at(now, state_started_at)

\* start_workflow(workflow_name, steps)
start_workflow(workflow_name, steps) ==
  /\ current_workflow' =
       [name |-> workflow_name, steps |-> steps, current_step |-> 0]
  /\ last' = Call("start_workflow", workflow_name, None, "none", FALSE, None)
  /\ trace' = <<>>
  /\ UNCHANGED <<state, waiting_for, browser_process, selected_profile,
                 current_url, state_started_at, current_task, now, spawned>>

\* cancel_workflow() that forgets to clear waiting_for
cancel_workflow_KeepsWaiting ==
  /\ current_workflow' = NoWorkflow
  /\ state' = IDLE
  /\ last' = Call("cancel_workflow", None, None, "none", FALSE, None)
  /\ trace' = <<>>
  /\ UNCHANGED <<waiting_for, browser_process, selected_profile, current_url,
                 state_started_at, current_task, now, spawned>>

\* cancel_workflow() that also forgets the profile and the process
cancel_workflow_ForgetsSession ==
  /\ current_workflow' = NoWorkflow
  /\ state' = IDLE
  /\ waiting_for' = None
  /\ browser_process' = 0
  /\ selected_profile' = None
  /\ last' = Call("cancel_workflow", None, None, "none", FALSE, None)
  /\ trace' = <<>>
  /\ UNCHANGED <<current_url, state_started_at, current_task, now, spawned>>

\* cancel_workflow()
cancel_workflow ==
  /\ current_workflow' = NoWorkflow
  /\ state' = IDLE
  /\ waiting_for' = None
  /\ last' = Call("cancel_workflow", None, None, "none", FALSE, None)
  /\ trace' = <<>>
  /\ UNCHANGED <<browser_process, selected_profile, current_url,
                 state_started_at, current_task, now, spawned>>

\* ---- handle_browser_opening
\* Chrome launched, but the profile is never asked for.
ChromeLaunchedSteps_NoPrompt(profile) ==
  IF Truthy(profile)
  THEN <<Ev("selected_profile =", profile, 0), SetState(BROWSER_READY, None)>>
  ELSE <<SetState(BROWSER_READY, None)>>

\* Chrome launched, passing through PROFILE_SELECTION also when a profile is given.
ChromeLaunchedSteps_ViaSelection(profile) ==
  <<SetState(PROFILE_SELECTION, "profile name (e.g., 'profile 1', 'amaan')")>>
  \o IF Truthy(profile)
     THEN <<Ev("selected_profile =", profile, 0), SetState(BROWSER_READY, None)>>
     ELSE <<>>

\* Chrome launched, the profile stored as the directory it was mapped to.
ChromeLaunchedSteps_Normalised(profile) ==
  IF Truthy(profile)
  THEN <<Ev("selected_profile =", _get_chrome_profile(profile), 0),
         SetState(BROWSER_READY, None)>>
  ELSE <<SetState(PROFILE_SELECTION, "profile name (e.g., 'profile 1', 'amaan')")>>

\* After Chrome was launched: the profile is stored and the browser is ready,
\* or the profile is asked for.
ChromeLaunchedSteps(profile) ==
  IF Truthy(profile)
  THEN <<Ev("selected_profile =", profile, 0), SetState(BROWSER_READY, None)>>
  ELSE <<SetState(PROFILE_SELECTION, "profile name (e.g., 'profile 1', 'amaan')")>>

ChromeLaunchedResult(profile) ==
  IF Truthy(profile)
  THEN Pair(TRUE, "Chrome opened with " \o profile \o " profile")
  ELSE Pair(TRUE, "Chrome is opening. Which profile? Say 'Profile 1' or 'Amaan'")

\* An except branch that reports the failure and leaves the state as it is.
LaunchFailedSteps_Stuck == <<>>

\* An except branch that also clears the task.
LaunchFailedSteps_ClearsTask == <<SetState(IDLE, None), Ev("set_task", None, 0)>>

\* The except branches: the workflow is abandoned.
LaunchFailedSteps == <<SetState(IDLE, None)>>

\* The command line handle_browser_opening launches.
BrowserCmd(browser_name, profile) ==
  IF Lower(browser_name) = "chrome"
  THEN IF Truthy(profile)
       THEN ChromeProfileCmd(_get_chrome_profile(profile))
       ELSE "google-chrome"
  ELSE Lower(browser_name)

\* A handle_browser_opening that does nothing while a browser is ready.
handle_browser_opening_steps_Guarded(browser_name, profile, launch_ok) ==
  LET cmd == BrowserCmd(browser_name, profile) IN
  IF state = BROWSER_READY THEN <<>>
  ELSE
  <<SetState(BROWSER_STARTING, "profile selection"),
    Ev("set_task", "opening_" \o browser_name, 0)>>
  \o IF Lower(browser_name) = "chrome"
     THEN IF launch_ok
          THEN <<Ev("browser_process = Popen", cmd, 0), Sleep(SleepAfterLaunch)>>
               \o ChromeLaunchedSteps(profile)
          ELSE <<Ev("Popen raises", cmd, 0)>> \o LaunchFailedSteps
     ELSE IF launch_ok
          THEN <<Ev("Popen", cmd, 0), Sleep(SleepAfterLaunch),
                 SetState(BROWSER_READY, None)>>
          ELSE <<Ev("Popen raises", cmd, 0)>> \o LaunchFailedSteps

\* launch_ok: subprocess.Popen returns a process (TRUE) or raises (FALSE).
handle_browser_opening_steps(browser_name, profile, launch_ok) ==
  LET cmd == BrowserCmd(browser_name, profile) IN
  <<SetState(BROWSER_STARTING, "profile selection"),
    Ev("set_task", "opening_" \o browser_name, 0)>>
  \o IF Lower(browser_name) = "chrome"
     THEN IF launch_ok
          THEN <<Ev("browser_process = Popen", cmd, 0), Sleep(SleepAfterLaunch)>>
               \o ChromeLaunchedSteps(profile)
          ELSE <<Ev("Popen raises", cmd, 0)>> \o LaunchFailedSteps
     ELSE IF launch_ok
          THEN <<Ev("Popen", cmd, 0), Sleep(SleepAfterLaunch),
                 SetState(BROWSER_READY, None)>>
          ELSE <<Ev("Popen raises", cmd, 0)>> \o LaunchFailedSteps

handle_browser_opening_result(browser_name, profile, launch_ok) ==
  IF Lower(browser_name) = "chrome"
  THEN IF launch_ok THEN ChromeLaunchedResult(profile)
       ELSE Pair(FALSE, "Failed to open Chrome: OSError")
  ELSE IF launch_ok THEN Pair(TRUE, browser_name \o " opened")
       ELSE Pair(FALSE, "Failed to open " \o browser_name)

handle_browser_opening(browser_name, profile, launch_ok) ==
  Perform("handle_browser_opening", browser_name, profile,
          handle_browser_opening_steps(browser_name, profile, launch_ok),
          handle_browser_opening_result(browser_name, profile, launch_ok))

\* ---- handle_profile_selection
\* A precondition that also asks for an active plan.
ProfileSelectionAllowed_NeedsPlan ==
  state = PROFILE_SELECTION /\ current_workflow # NoWorkflow

\* No precondition at all.
ProfileSelectionAllowed_Always == TRUE

\* The precondition: the state is PROFILE_SELECTION.
ProfileSelectionAllowed == state = PROFILE_SELECTION

\* The text looked up without lower-casing.
ParseProfileInput_NoLower(profile_input) == Strip(profile_input)

\* The text that is looked up: profile_input.lower().strip()
ParseProfileInput(profile_input) == Strip(Lower(profile_input))

\* profile_map.get(profile_input)
SelectionProfileDir(profile_input) ==
  DictGet(selection_profile_map, ParseProfileInput(profile_input), None)

\* An unmapped text abandons the workflow.
UnknownProfileSteps_Abandon == <<SetState(IDLE, None)>>

\* An unmapped text: nothing is done.
UnknownProfileSteps == <<>>

\* The current Chrome instance is left running.
ClosingSteps_LeavesOpen(terminate_ok) == <<>>

\* The current Chrome instance is closed; terminate_ok: terminate() returns
\* (TRUE) or raises (FALSE), and what it raises is swallowed.
ClosingSteps(terminate_ok) ==
  IF browser_process # 0
  THEN IF terminate_ok
       THEN <<Ev("terminate", "", browser_process), Sleep(SleepAfterTerminate)>>
       ELSE <<Ev("terminate raises", "", browser_process)>>
  ELSE <<>>

\* The profile is stored and the state set before Chrome is launched.
SelectionLaunchSteps_StateFirst(parsed, cmd, launch_ok) ==
  IF launch_ok
  THEN <<Ev("selected_profile =", parsed, 0), SetState(BROWSER_READY, None),
         Ev("browser_process = Popen", cmd, 0), Sleep(SleepAfterLaunch)>>
  ELSE <<Ev("Popen raises", cmd, 0), SetState(IDLE, None)>>

\* The state is assigned without set_state, so waiting_for is left as it was.
SelectionLaunchSteps_KeepsWaiting(parsed, cmd, launch_ok) ==
  IF launch_ok
  THEN <<Ev("browser_process = Popen", cmd, 0), Ev("selected_profile =", parsed, 0),
         Sleep(SleepAfterLaunch), SetState(BROWSER_READY, waiting_for)>>
  ELSE <<Ev("Popen raises", cmd, 0), SetState(IDLE, None)>>

\* Chrome is launched with the selected profile.
SelectionLaunchSteps(parsed, cmd, launch_ok) ==
  IF launch_ok
  THEN <<Ev("browser_process = Popen", cmd, 0), Ev("selected_profile =", parsed, 0),
         Sleep(SleepAfterLaunch), SetState(BROWSER_READY, None)>>
  ELSE <<Ev("Popen raises", cmd, 0), SetState(IDLE, None)>>

handle_profile_selection_steps(profile_input, terminate_ok, launch_ok) ==
  IF ~ProfileSelectionAllowed THEN <<>>
  ELSE IF SelectionProfileDir(profile_input) = None THEN UnknownProfileSteps
  ELSE ClosingSteps(terminate_ok)
       \o SelectionLaunchSteps(ParseProfileInput(profile_input),
                               ChromeProfileCmd(SelectionProfileDir(profile_input)),
                               launch_ok)

handle_profile_selection_result(profile_input, launch_ok) ==
  IF ~ProfileSelectionAllowed THEN Pair(FALSE, "Not in profile selection mode")
  ELSE IF SelectionProfileDir(profile_input) = None
  THEN Pair(FALSE, "Unknown profile: " \o ParseProfileInput(profile_input)
                     \o ". Try 'Profile 1', 'Amaan', or 'Profile 2'")
  ELSE IF launch_ok
  THEN Pair(TRUE, "Opened " \o ParseProfileInput(profile_input)
                    \o " profile. What would you like to do?")
  ELSE Pair(FALSE, "Failed to open profile: OSError")

handle_profile_selection(profile_input, terminate_ok, launch_ok) ==
  Perform("handle_profile_selection", profile_input, None,
          handle_profile_selection_steps(profile_input, terminate_ok, launch_ok),
          handle_profile_selection_result(profile_input, launch_ok))

\* ---- handle_website_opening
\* WEBSITE_URLS of constants.py
WEBSITE_URLS ==
  ("youtube" :> "https://youtube.com") @@ ("gmail" :> "https://gmail.com") @@
  ("google" :> "https://google.com") @@ ("facebook" :> "https://facebook.com") @@
  ("twitter" :> "https://twitter.com") @@ ("github" :> "https://github.com") @@
  ("reddit" :> "https://reddit.com") @@ ("linkedin" :> "https://linkedin.com") @@
  ("whatsapp" :> "https://web.whatsapp.com") @@
  ("netflix" :> "https://netflix.com") @@
  ("stackoverflow" :> "https://stackoverflow.com")

\* The URL handle_website_opening opens for website_name.
WebsiteUrl(website_name) ==
  LET url == DictGet(WEBSITE_URLS, Lower(website_name), None)
  IN IF url = None THEN "https://www.google.com/search?q=" \o website_name ELSE url

\* A guard that takes only BROWSER_READY as a state with a browser.
NoBrowserOpen_IdleToo(tabs) ==
  state # BROWSER_READY /\ (~tab_manager \/ Len(tabs) = 0)

\* A guard that lets every state through.
NoBrowserOpen_Never(tabs) == FALSE

\* The guard: no browser is known to be open. tabs are the titles
\* get_all_tabs() returns when it is asked.
NoBrowserOpen(tabs) ==
  state \notin {BROWSER_READY, IDLE} /\ (~tab_manager \/ Len(tabs) = 0)

\* get_all_tabs() is asked only in another state than BROWSER_READY and IDLE,
\* and when the Tab Directory exists.
handle_website_opening_steps(website_name, tabs) ==
  (IF state \notin {BROWSER_READY, IDLE} /\ tab_manager
   THEN <<Ev("get_all_tabs", tabs, 0)>> ELSE <<>>)
  \o IF NoBrowserOpen(tabs) THEN <<>>
     ELSE <<Ev("webbrowser.open", WebsiteUrl(website_name), 0),
            Ev("current_url =", WebsiteUrl(website_name), 0)>>

handle_website_opening_result(website_name, tabs) ==
  IF NoBrowserOpen(tabs)
  THEN Pair(FALSE, "No browser is open. Say 'Open Chrome' first")
  ELSE Pair(TRUE, "Opening " \o website_name)

handle_website_opening(website_name, tabs) ==
  Perform("handle_website_opening", website_name, None,
          handle_website_opening_steps(website_name, tabs),
          handle_website_opening_result(website_name, tabs))

\* ---- handle_search_query
\* YouTube is detected wherever its tab stands.
DetectPlatform_YoutubeAnywhere(tabs) ==
  IF \E i \in DOMAIN tabs : Contains("youtube", Lower(tabs[i])) THEN "youtube"
  ELSE IF \E i \in DOMAIN tabs : Contains("google", Lower(tabs[i])) THEN "google"
  ELSE None

\* Only the first tab is looked at.
DetectPlatform_FirstTabOnly(tabs) ==
  IF Len(tabs) = 0 THEN None
  ELSE IF Contains("youtube", Lower(Head(tabs))) THEN "youtube"
  ELSE IF Contains("google", Lower(Head(tabs))) THEN "google"
  ELSE None

\* The platform detected from the open tabs, in the order they are returned.
RECURSIVE DetectPlatform(_)
DetectPlatform(tabs) ==
  IF Len(tabs) = 0 THEN None
  ELSE IF Contains("youtube", Lower(Head(tabs))) THEN "youtube"
  ELSE IF Contains("google", Lower(Head(tabs))) THEN "google"
  ELSE DetectPlatform(Tail(tabs))

\* The platform that is searched on.
SearchPlatform(platform, tabs) ==
  IF ~Truthy(platform)
  THEN IF tab_manager THEN DetectPlatform(tabs) ELSE platform
  ELSE platform

\* The URL that is opened.
SearchUrl(query, platform) ==
  IF platform = "youtube"
  THEN "https://www.youtube.com/results?search_query=" \o Replace(query, " ", "+")
  ELSE "https://www.google.com/search?q=" \o Replace(query, " ", "+")

\* A search that moves the workflow to SEARCHING.
handle_search_query_steps_Searching(query, platform, tabs) ==
  <<Ev("webbrowser.open", SearchUrl(query, SearchPlatform(platform, tabs)), 0),
    SetState(SEARCHING, None)>>

\* tabs are the titles get_all_tabs() returns, in its order; it is asked only
\* when no platform is given and the Tab Directory exists.
handle_search_query_steps(query, platform, tabs) ==
  (IF ~Truthy(platform) /\ tab_manager THEN <<Ev("get_all_tabs", tabs, 0)>> ELSE <<>>)
  \o <<Ev("webbrowser.open", SearchUrl(query, SearchPlatform(platform, tabs)), 0)>>

handle_search_query(query, platform, tabs) ==
  Perform("handle_search_query", query, platform,
          handle_search_query_steps(query, platform, tabs),
          Pair(TRUE, "Searching for " \o query))

\* ---- is_state_expired, get_current_state_info, get_help_message
\* Workflow.get_progress(): f"{current_step}/{len(steps)}"
get_progress(workflow) ==
  ToString(workflow.current_step) \o "/" \o ToString(Len(workflow.steps))

\* get_current_state_info()
get_current_state_info ==
  [state |-> state, waiting_for |-> waiting_for,
   workflow |-> IF current_workflow # NoWorkflow THEN current_workflow.name ELSE None,
   workflow_progress |->
     IF current_workflow # NoWorkflow THEN get_progress(current_workflow) ELSE None]

\* An observer that moves an expired state to IDLE.
ObserverEffect_Expiring ==
  /\ state' = IF is_state_expired THEN IDLE ELSE state
  /\ UNCHANGED <<waiting_for, current_workflow, browser_process, selected_profile,
                 current_url, state_started_at, current_task, now, spawned>>

\* What the three observers assign: nothing.
ObserverEffect ==
  UNCHANGED <<state, waiting_for, current_workflow, browser_process,
              selected_profile, current_url, state_started_at, current_task, now,
              spawned>>

\* An observer is called and returns value.
Observe(op, value) ==
  /\ ObserverEffect
  /\ last' = Call(op, None, None, "value", FALSE, value)
  /\ trace' = <<>>

\* ------------------------------------------------------------------ dispatcher
\* VoiceAssistant.process_command with the ContextManager methods it calls.
\* The utterances are ASCII, so of each phrase list the English phrases are kept.

\* any(w in s for w in words)
ContainsAny(words, s) == \E w \in words : Contains(w, s)

Range(seq) == {seq[i] : i \in DOMAIN seq}

\* The text p stands in s at position k.
At(s, k, p) ==
  k >= 1 /\ k + Len(p) - 1 <= Len(s) /\ SubSeq(s, k, k + Len(p) - 1) = p

\* The first text of the sequence order that occurs in s, or None.
FirstIn(order, s) ==
  LET hits == {i \in DOMAIN order : Contains(order[i], s)}
  IN IF hits = {} THEN None
     ELSE order[CHOOSE i \in hits : \A j \in hits : i <= j]

\* for w in olds: s = s.replace(w, new)
RECURSIVE ReplaceAll(_, _, _)
ReplaceAll(s, olds, new) ==
  IF olds = <<>> THEN s
  ELSE ReplaceAll(Replace(s, Head(olds), new), Tail(olds), new)

\* s.split(sep, 1)[1], for a sep that occurs in s
AfterFirst(s, sep) ==
  LET i == CHOOSE k \in 1..Len(s) :
             At(s, k, sep) /\ \A j \in 1..(k - 1) : ~At(s, j, sep)
  IN SubSeq(s, i + Len(sep), Len(s))

IsDigit(c) == c \in {"0", "1", "2", "3", "4", "5", "6", "7", "8", "9"}
HasDigit(s) == \E i \in 1..Len(s) : IsDigit(CharAt(s, i))

\* The digits s starts with.
RECURSIVE LeadingDigits(_)
LeadingDigits(s) ==
  IF Len(s) > 0 /\ IsDigit(CharAt(s, 1))
  THEN CharAt(s, 1) \o LeadingDigits(SubSeq(s, 2, Len(s)))
  ELSE ""

\* re.search(r'profile (\d+)', s): group 1 of the leftmost match, or None
ProfileNumber(s) ==
  LET at == {k \in 1..Len(s) :
               /\ At(s, k, "profile ")
               /\ k + 8 <= Len(s)
               /\ IsDigit(CharAt(s, k + 8))}
  IN IF at = {} THEN None
     ELSE LeadingDigits(SubSeq(s, (CHOOSE k \in at : \A j \in at : k <= j) + 8, Len(s)))

\* re.search(r'(https?://\S+|www\.\S+|\S+\.com)', s) finds a match
HasUrl(s) ==
  LET Plain(i) == i >= 1 /\ i <= Len(s) /\ ~IsSpace(CharAt(s, i))
  IN \E k \in 1..Len(s) :
       \/ At(s, k, "http://") /\ Plain(k + 7)
       \/ At(s, k, "https://") /\ Plain(k + 8)
       \/ At(s, k, "www.") /\ Plain(k + 4)
       \/ At(s, k, ".com") /\ Plain(k - 1)

\* ---- ContextManager
References == <<"it", "that", "this", "the app", "the application">>

\* resolve_reference(text), with last_app_mentioned = app
resolve_reference(text, app) ==
  LET text_lower == LowerText(text)
  IN IF ContainsAny(Range(References), text_lower) /\ Truthy(app)
     THEN ReplaceAll(text_lower, References, LowerText(app))
     ELSE text_lower

\* is_browser_task(), with last_app_mentioned = app
is_browser_task(app) ==
  IF Truthy(app) THEN LowerText(app) \in {"chrome", "firefox", "chromium", "brave"}
  ELSE FALSE

known_apps ==
  <<"chrome", "firefox", "terminal", "calculator", "files", "code", "vscode",
    "settings", "music", "videos", "chromium", "brave", "nautilus", "gedit">>

extract_app_name(command) == FirstIn(known_apps, LowerText(command))

\* profiles of get_chrome_profile_command
context_profiles ==
  ("me" :> "Default") @@ ("amaan" :> "Profile 1") @@
  ("profile 1" :> "Profile 1") @@ ("profile 2" :> "Profile 2") @@
  ("work" :> "Profile 2") @@ ("personal" :> "Default") @@
  ("1" :> "Profile 1") @@ ("2" :> "Profile 2")

get_chrome_profile_command(profile_name) ==
  ChromeProfileCmd(DictGet(context_profiles, LowerText(profile_name), "Default"))

\* open_url_in_browser(url), with last_app_mentioned = app: the message
open_url_in_browser(url, app) ==
  IF ~Truthy(app) THEN "No browser is open" ELSE "Opening " \o url

\* ---- the branch conditions of process_command, on command_lower (cl) and
\* ---- command_resolved (cr)
OwnerPhrases ==
  {"my name", "what is my name", "who am i", "your owner", "owner name",
   "who is your owner"}
GreetingPhrases ==
  {"hello", "hi", "hey", "good morning", "good evening", "good afternoon"}

IsOwnerQuery(cl) == ContainsAny(OwnerPhrases, cl)
IsGreeting(cl) == ContainsAny(GreetingPhrases, cl)
IsListApps(cl) ==
  Contains("what", cl) /\ ContainsAny({"app", "running", "open", "program"}, cl)
IsHowMany(cl) == Contains("how many", cl)
CountedApps == <<"chrome", "firefox", "terminal", "code", "files", "window">>
IsChromeOpen(cl) == Contains("chrome", cl) /\ Contains("open", cl)

\* The profile the Chrome branch extracts from the utterance.
ChromeProfileArg(cl) ==
  IF ContainsAny({"profile", "amaan", "work"}, cl)
  THEN IF ContainsAny({"profile 1", "amaan", "profile1"}, cl) THEN "profile 1"
       ELSE IF ContainsAny({"profile 2", "work", "profile2"}, cl) THEN "profile 2"
       ELSE IF ContainsAny({"default", "me"}, cl) THEN "default"
       ELSE None
  ELSE None

IsSearchFor(cl) ==
  Contains("search for", cl) \/ (Contains("search", cl) /\ Contains("for", cl))
SearchForQuery(cl) ==
  IF Contains("search for", cl) THEN Strip(AfterFirst(cl, "search for")) ELSE None

DispatchSites ==
  <<"youtube", "gmail", "facebook", "twitter", "github", "reddit", "netflix">>
IsWebsite(cl) == ContainsAny(Range(DispatchSites), cl)

IsOpen(cr) == Contains("open", cr)
OpenAppName(cr) == Strip(ReplaceAll(cr, <<"open", "the", "a">>, ""))
OpenWebsites ==
  <<"youtube", "gmail", "github", "facebook", "twitter", "reddit", "stackoverflow">>

IsClose(cr) == Contains("close", cr)
IsProfile(cr, app) == Contains("profile", cr) /\ is_browser_task(app)

\* The profile the profile branch extracts, or None when it asks instead.
SpokenProfile(cr) ==
  IF Contains("profile 1", cr) \/ Contains("amaan", cr) THEN "amaan"
  ELSE IF Contains("profile 2", cr) \/ Contains("me", cr) THEN "me"
  ELSE ProfileNumber(cr)

IsGoTo(cr) ==
  /\ ContainsAny({"go to", "open", "navigate"}, cr)
  /\ ContainsAny({"youtube", "gmail", "google", "facebook", ".com", "www"}, cr)
GoToSites == <<"youtube", "gmail", "google", "facebook", "twitter", "github">>

\* The branch taken of the chain that starts at the profile-selection check,
\* for an utterance heard outside PROFILE_SELECTION.
ChainBranch(cl, cr, app) ==
  IF IsListApps(cl) THEN "list apps"
  ELSE IF IsHowMany(cl) THEN "how many"
  ELSE IF IsChromeOpen(cl) THEN "chrome"
  ELSE IF IsSearchFor(cl) THEN "search for"
  ELSE IF IsWebsite(cl) THEN "website"
  ELSE IF IsOpen(cr) THEN "open"
  ELSE IF IsClose(cr) THEN "close"
  ELSE IF IsProfile(cr, app) THEN "profile"
  ELSE IF IsGoTo(cr) THEN "go to"
  ELSE "none"

exit_phrases ==
  {"exit", "quit", "stop", "shutdown assistant", "goodbye", "bye", "see you",
   "stop alexa", "exit alexa", "goodbye alexa"}
feature_words == {"wifi", "bluetooth", "volume", "brightness"}

is_exit_command(cl) ==
  \/ ContainsAny(exit_phrases, cl)
  \/ Contains("turn off", cl) /\ ~ContainsAny(feature_words, cl)

\* The chain after the exit check, in the order of its conditions.
TailOrder ==
  <<"web search", "list tabs", "switch tab", "close tab", "is open", "tab count",
    "time", "date", "brightness", "wifi", "bluetooth", "battery", "disk",
    "memory", "lock", "power", "play", "pause", "stop music", "next",
    "previous", "what playing", "play music", "volume", "screenshot", "help">>

\* The condition of each branch; tm: the Tab Directory exists.
TailMatches(b, cl, tm) ==
  CASE b = "web search" -> ContainsAny({"search", "google"}, cl)
    [] b = "list tabs" ->
         tm /\ ContainsAny({"what tabs", "list tabs", "show tabs", "tabs open"}, cl)
    [] b = "switch tab" -> tm /\ ContainsAny({"switch to", "go to", "open tab"}, cl)
    [] b = "close tab" ->
         tm /\ ContainsAny({"close tab", "close youtube", "close github",
                            "close gmail"}, cl)
    [] b = "is open" ->
         tm /\ ContainsAny({"is youtube open", "is github open", "is gmail open"}, cl)
    [] b = "tab count" ->
         tm /\ ContainsAny({"how many tabs", "tab count", "count tabs"}, cl)
    [] b = "time" -> Contains("time", cl)
    [] b = "date" -> Contains("date", cl)
    [] b = "brightness" -> Contains("brightness", cl)
    [] b = "wifi" -> Contains("wifi", cl)
    [] b = "bluetooth" -> Contains("bluetooth", cl)
    [] b = "battery" -> Contains("battery", cl)
    [] b = "disk" -> ContainsAny({"disk", "space", "storage"}, cl)
    [] b = "memory" -> ContainsAny({"memory", "ram"}, cl)
    [] b = "lock" -> Contains("lock", cl) /\ Contains("screen", cl)
    [] b = "power" ->
         ContainsAny({"shutdown", "restart", "reboot", "sleep", "logout"}, cl)
    [] b = "play" -> Contains("play", cl) /\ ~Contains("music", cl)
    [] b = "pause" -> Contains("pause", cl)
    [] b = "stop music" -> Contains("stop", cl) /\ Contains("music", cl)
    [] b = "next" -> ContainsAny({"next", "skip"}, cl)
    [] b = "previous" -> ContainsAny({"previous", "back"}, cl)
    [] b = "what playing" ->
         Contains("what", cl) /\ ContainsAny({"playing", "song"}, cl)
    [] b = "play music" -> Contains("play music", cl)
    [] b = "volume" -> Contains("volume", cl)
    [] b = "screenshot" -> Contains("screenshot", cl)
    [] b = "help" -> ContainsAny({"help", "what can you do"}, cl)

\* The branch of that chain an utterance takes.
TailBranch(cl, tm) ==
  LET hits == {i \in DOMAIN TailOrder : TailMatches(TailOrder[i], cl, tm)}
  IN IF hits = {} THEN "unknown"
     ELSE TailOrder[CHOOSE i \in hits : \A j \in hits : i <= j]

\* A response whose wording the system decides.
Reply(b) == "<" \o b \o ">"

\* What a branch of that chain speaks, the help branch apart.
TailSpoken(b, cl) ==
  CASE b = "web search" ->
         LET query == Strip(ReplaceAll(cl, <<"search", "google", "for">>, ""))
         IN IF query # "" THEN <<"Searching for " \o query>>
            ELSE <<"What should I search for?">>
    [] b = "volume" ->
         IF HasDigit(cl) \/ ContainsAny({"get", "what"}, cl)
         THEN <<Reply(b)>> ELSE <<>>
    [] b = "unknown" -> <<"I'm not sure how to do that yet">>
    [] OTHER -> <<Reply(b)>>

\* get_help_message() in the state st
get_help_message(st) ==
  IF st = IDLE
  THEN "Ready! Try: 'Open Chrome', 'Open Firefox', or 'What apps are running?'"
  ELSE IF st = PROFILE_SELECTION
  THEN "Chrome is open. Say: 'Profile 1', 'Amaan', 'Profile 2', or 'Default'"
  ELSE IF st = BROWSER_READY
  THEN "Browser ready! Say: 'YouTube', 'Gmail', 'Search for X'"
  ELSE IF st = SEARCHING
  THEN "On search page. Say: 'Play first video', 'Next page'"
  ELSE "Current state: " \o st

\* apps of open_application, in the order of the dictionary
apps ==
  <<"firefox", "chrome", "chromium", "brave", "terminal", "files",
    "file manager", "calculator", "text editor", "notepad", "settings",
    "music", "videos", "code", "vs code">>

\* ------------------------------------------------------------------ environment
\* Lapses of time between calls: the timeout exactly, and half a second more.
Lapses == {state_timeout * TicksPerSecond, state_timeout * TicksPerSecond + 1}

\* The count of consecutive unknown-profile answers (history).
CountAttempts ==
  failed_attempts' =
    IF last'.op = "handle_profile_selection" /\ last'.from = PROFILE_SELECTION
       /\ trace' = <<>>
    THEN IF failed_attempts < MaxAttempts THEN failed_attempts + 1 ELSE failed_attempts
    ELSE IF state' = PROFILE_SELECTION /\ last'.op # "handle_browser_opening"
    THEN failed_attempts
    ELSE 0

\* Time passes between two calls.
Advance(d) ==
  /\ now + d <= MaxTime
  /\ now' = now + d
  /\ last' = Call("lapse", None, None, "none", FALSE, None)
  /\ trace' = <<>>
  /\ heard' = NotHeard
  /\ UNCHANGED <<state, waiting_for, current_workflow, browser_process,
                 selected_profile, current_url, state_started_at, current_task,
                 spawned, last_app_mentioned, running, tab_manager,
                 failed_attempts>>
  /\ UNCHANGED components

\* A call made on the manager directly, not through process_command.
Direct ==
  /\ heard' = NotHeard
  /\ CountAttempts
  /\ UNCHANGED <<last_app_mentioned, running, tab_manager>>
  /\ UNCHANGED components

\* ---- process_command
\* What is said to the assistant.
Utterances ==
  ProfileAliases \cup
  {"", "Amaan", "Open Chrome", "open chrome work", "open chrome profile",
   "hello", "search for funny cats", "youtube", "open firefox", "close it",
   "profile 3", "help", "exit"}

\* The values last_app_mentioned takes with these utterances.
LastApps == {None, "chrome", "firefox"}

\* What the user answers when asked about a tab that is already open.
TabReplies == {"no tab", "switch", "new", "unclear", "silence"}

\* str.capitalize() of a lower-case text
Capitalize(s) ==
  IF Len(s) = 0 THEN s
  ELSE LET i == {k \in 1..Len(LowerChars) : CharAt(LowerChars, k) = CharAt(s, 1)}
       IN (IF i = {} THEN CharAt(s, 1) ELSE CharAt(UpperChars, CHOOSE k \in i : TRUE))
          \o SubSeq(s, 2, Len(s))

\* What the conditions of process_command make of a command, given
\* last_app_mentioned (app) and whether the Tab Directory exists (tm).
RouteOf(command, app, tm) ==
  LET cl == LowerText(command)
      cr == resolve_reference(cl, app)
  IN [cl |-> cl, cr |-> cr,
      early |-> IF command = "" THEN "empty"
                ELSE IF IsOwnerQuery(cl) THEN "owner"
                ELSE IF IsGreeting(cl) THEN "greeting"
                ELSE "none",
      chain |-> ChainBranch(cl, cr, app),
      counted |-> FirstIn(CountedApps, cl),
      profile |-> ChromeProfileArg(cl),
      query |-> SearchForQuery(cl),
      site |-> FirstIn(DispatchSites, cl),
      app_name |-> OpenAppName(cr),
      open_site |-> FirstIn(OpenWebsites, OpenAppName(cr)),
      app_key |-> FirstIn(apps, OpenAppName(cr)),
      spoken_profile |-> SpokenProfile(cr),
      goto_site |-> FirstIn(GoToSites, cr),
      has_url |-> HasUrl(cr),
      exit |-> is_exit_command(cl),
      tail |-> TailBranch(cl, tm),
      tail_spoken |-> TailSpoken(TailBranch(cl, tm), cl)]

\* RouteOf of every utterance, computed once.
Routes ==
  [command \in Utterances |->
     [app \in LastApps |-> [tm \in BOOLEAN |-> RouteOf(command, app, tm)]]]
Route(command) == Routes[command][last_app_mentioned][tab_manager]

\* The outcome of a part of process_command that calls no handler of the
\* manager: what it spoke, whether it returned, last_app_mentioned after it
\* and what it launched (or None).
Outcome(branches, spoken, returned, app, launched) ==
  [branches |-> branches, spoken |-> spoken, returned |-> returned,
   app |-> app, launched |-> launched]

\* open_application(app_name): the key found, whether its command exists and
\* whether the launch succeeds
open_application(key, installed, launch_ok) ==
  IF key = None
  THEN Outcome(<<>>, <<"Sorry, I don't know how to open that">>, None,
               last_app_mentioned, None)
  ELSE IF installed /\ launch_ok
  THEN Outcome(<<>>, <<"Opening " \o key>>, None, key, key)
  ELSE Outcome(<<>>, <<"Sorry, " \o key \o " is not installed">>, None,
               last_app_mentioned, None)

\* The open branch: the question about an open tab, then open_application.
OpenBranch(r, installed, launch_ok, tab_reply) ==
  LET asked == r.open_site # None /\ tab_manager
      site == r.open_site
      already == Capitalize(site) \o " is already open. Switch to it or open new tab?"
      opened == open_application(r.app_key, installed, launch_ok)
  IN IF asked /\ tab_reply \in {"switch", "unclear"}
     THEN Outcome(<<"open">>, <<already, Reply("switch_to_tab")>>, "True",
                  last_app_mentioned, None)
     ELSE [opened EXCEPT
             !.branches = <<"open">>,
             !.spoken =
               (IF ~asked THEN <<>>
                ELSE IF tab_reply = "no tab"
                THEN <<Capitalize(site) \o " is not open. Opening it now.">>
                ELSE IF tab_reply = "new"
                THEN <<already, "Opening new " \o site \o " tab">>
                ELSE <<already>>) \o @]

\* The profile branch of the dispatcher.
ProfileBranch(r, launch_ok) ==
  IF r.spoken_profile = None
  THEN Outcome(<<"profile">>, <<"Which profile? Say 'Amaan' or 'me'">>, "True",
               last_app_mentioned, None)
  ELSE IF launch_ok
  THEN Outcome(<<"profile">>,
               <<"Opening Chrome with " \o r.spoken_profile \o " profile">>, None,
               "chrome", get_chrome_profile_command(r.spoken_profile))
  ELSE Outcome(<<"profile">>, <<"Could not open profile">>, None,
               last_app_mentioned, None)

\* The go-to branch.
GoToBranch(r) ==
  Outcome(<<"go to">>,
          IF r.goto_site # None
          THEN <<open_url_in_browser("https://" \o r.goto_site \o ".com",
                                     last_app_mentioned)>>
          ELSE IF r.has_url THEN <<Reply("open_url_in_browser")>>
          ELSE <<>>,
          None, last_app_mentioned, None)

\* The close branch: close_app decides what is said.
CloseBranch ==
  Outcome(<<"close">>, <<Reply("close_app")>>, None, last_app_mentioned, None)

\* No branch of the chain matched.
NoBranch == Outcome(<<>>, <<>>, None, last_app_mentioned, None)

\* The exit check and the chain after it, for a command that has not returned.
ExitOrTail(r, o) ==
  IF o.returned # None THEN o
  ELSE IF r.exit
  THEN [o EXCEPT !.branches = @ \o <<"exit">>,
                 !.spoken = @ \o <<"Goodbye! Have a great day!">>,
                 !.returned = "False"]
  ELSE IF r.tail = "help"
  THEN IF state # IDLE
       THEN [o EXCEPT !.branches = @ \o <<"help">>,
                      !.spoken = @ \o <<get_help_message(state)>>,
                      !.returned = "UnboundLocalError"]
       ELSE [o EXCEPT !.branches = @ \o <<"help">>,
                      !.spoken = @ \o <<Reply("help_text")>>,
                      !.returned = "True"]
  ELSE [o EXCEPT !.branches = @ \o <<r.tail>>,
                 !.spoken = @ \o r.tail_spoken,
                 !.returned = "True"]

\* The command called no handler of the manager.
NoManagerCall ==
  /\ last' = Call("none", None, None, "none", FALSE, None)
  /\ trace' = <<>>
  /\ UNCHANGED <<state, waiting_for, current_workflow, browser_process,
                 selected_profile, current_url, state_started_at, current_task,
                 now>>

\* A part of process_command that calls no handler takes effect.
Conclude(command, o) ==
  /\ NoManagerCall
  /\ heard' = Heard(command, o.branches, o.spoken, o.launched, o.returned)
  /\ last_app_mentioned' = o.app
  /\ running' = (o.returned # "False")
  /\ IF o.launched # None
     THEN spawned < MaxSpawn /\ spawned' = spawned + 1
     ELSE spawned' = spawned

\* A handler of the manager was called (its action is conjoined): its message
\* is spoken and True is returned.
Spoke(command, branch, app) ==
  /\ heard' = Heard(command, <<branch>>, <<last'.msg>>, None, "True")
  /\ last_app_mentioned' = app
  /\ UNCHANGED running

\* The keyword branches tried before the state is looked at.
FirstBranch_KeywordsFirst(r) ==
  IF r.early # "none" THEN r.early
  ELSE IF r.chain # "none" THEN r.chain
  ELSE IF r.exit THEN "none"
  ELSE IF state = PROFILE_SELECTION THEN "profile selection"
  ELSE "none"

\* The branch that handles the command: one of the two leading checks, the
\* profile-selection check, or a branch of the chain that hangs on it. The
\* branches open, close, profile and go to do not return, and neither does a
\* command that matches none: the exit check and the chain after it follow.
FirstBranch(r) ==
  IF r.early # "none" THEN r.early
  ELSE IF state = PROFILE_SELECTION THEN "profile selection"
  ELSE r.chain

\* process_command(command), as the main loop calls it while running.
\* app_detector: whether the app detector exists, read where it is asked.
process_command(command) ==
  LET r == Route(command)
      b == FirstBranch(r)
      app == last_app_mentioned
      Said(spoken) == Outcome(<<b>>, spoken, "True", app, None)
  IN
  /\ running
  /\ UNCHANGED tab_manager
  /\ UNCHANGED components
  /\ CASE b = "empty" -> Conclude(command, Outcome(<<>>, <<>>, "True", app, None))
       [] b = "owner" ->
            Conclude(command, Said(<<"Your name is Mr Amaan. You are my owner.">>))
       [] b = "greeting" -> Conclude(command, Said(<<Reply("greeting")>>))
       [] b = "profile selection" ->
            \E terminate_ok \in BOOLEAN, launch_ok \in BOOLEAN :
              /\ handle_profile_selection(r.cl, terminate_ok, launch_ok)
              /\ Spoke(command, b, app)
       [] b = "list apps" ->
            \E app_detector \in BOOLEAN :
              Conclude(command,
                       Said(IF app_detector THEN <<Reply("get_app_summary")>>
                            ELSE <<"App detector not available. Install wmctrl.">>))
       [] b = "how many" ->
            \E app_detector \in BOOLEAN :
              Conclude(command,
                       Said(IF ~app_detector THEN <<"App detector not available">>
                            ELSE IF r.counted # None THEN <<Reply("count")>>
                            ELSE <<>>))
       [] b = "chrome" ->
            \E launch_ok \in BOOLEAN :
              /\ handle_browser_opening("chrome", r.profile, launch_ok)
              /\ Spoke(command, b, "chrome")
       [] b = "search for" ->
            IF Truthy(r.query)
            THEN \E tabs \in TabLists :
                   /\ handle_search_query(r.query, None, tabs)
                   /\ Spoke(command, b, app)
            ELSE Conclude(command, Said(<<"What should I search for?">>))
       [] b = "website" ->
            \E tabs \in TabLists :
              /\ handle_website_opening(r.site, tabs)
              /\ Spoke(command, b, app)
       [] b = "open" ->
            \E installed \in BOOLEAN, launch_ok \in BOOLEAN,
               tab_reply \in (IF r.open_site # None /\ tab_manager
                              THEN TabReplies ELSE {"no tab"}) :
              Conclude(command,
                       ExitOrTail(r, OpenBranch(r, installed, launch_ok, tab_reply)))
       [] b = "close" -> Conclude(command, ExitOrTail(r, CloseBranch))
       [] b = "profile" ->
            \E launch_ok \in BOOLEAN :
              Conclude(command, ExitOrTail(r, ProfileBranch(r, launch_ok)))
       [] b = "go to" -> Conclude(command, ExitOrTail(r, GoToBranch(r)))
       [] b = "none" -> Conclude(command, ExitOrTail(r, NoBranch))
  /\ CountAttempts

StartWorkflowStep ==
  \E name \in {"browse", "search"} :
    start_workflow(name, <<"open", "profile">>) /\ Direct
CancelWorkflowStep == cancel_workflow /\ Direct
BrowserOpeningStep ==
  \E b \in BrowserNames, p \in ProfileArgs, ok \in BOOLEAN :
    handle_browser_opening(b, p, ok) /\ Direct
ProfileSelectionStep ==
  \E t \in FewProfileInputs, tok \in BOOLEAN, ok \in BOOLEAN :
    handle_profile_selection(t, tok, ok) /\ Direct
WebsiteOpeningStep ==
  \E w \in SiteNames, tabs \in TabLists : handle_website_opening(w, tabs) /\ Direct
SearchQueryStep ==
  \E q \in Queries, pf \in Platforms, tabs \in TabLists :
    handle_search_query(q, pf, tabs) /\ Direct
AdvanceStep == \E d \in Lapses : Advance(d)

Next ==
  \/ StartWorkflowStep
  \/ CancelWorkflowStep
  \/ BrowserOpeningStep
  \/ ProfileSelectionStep
  \/ WebsiteOpeningStep
  \/ SearchQueryStep
  \/ AdvanceStep

Spec == Init /\ [][Next]_vars

\* The profile mapping on its own: Chrome is opened without a profile and
\* every text of ProfileInputs is given as the answer.
OpenChromeStep ==
  \E ok \in BOOLEAN : handle_browser_opening("chrome", None, ok) /\ Direct
AnyProfileSelectionStep ==
  \E t \in ProfileInputs, tok \in BOOLEAN, ok \in BOOLEAN :
    handle_profile_selection(t, tok, ok) /\ Direct

NextProfiles ==
  \/ OpenChromeStep
  \/ AnyProfileSelectionStep

SpecProfiles == Init /\ [][NextProfiles]_vars

\* The assistant: utterances go through process_command, and
\* handle_profile_selection is also called directly.
ProcessCommandStep == \E command \in Utterances : process_command(command)

NextAssistant ==
  \/ ProcessCommandStep
  \/ ProfileSelectionStep

SpecAssistant == Init /\ [][NextAssistant]_vars

\* Browsing: browsers are opened, workflows cancelled, and websites and
\* searches asked for with every kind of site name, query, platform and tabs.
AllTabLists ==
  TabLists \cup
  {<<"YouTube - Cats", "Google Search">>, <<"Inbox", "GOOGLE Maps", "youtube">>,
   <<"Inbox">>, <<"Inbox", "Watch on YouTube via Google">>}
WebsiteAnyStep ==
  \E w \in SiteNames \cup {"gmail", "my blog", ""}, tabs \in AllTabLists :
    handle_website_opening(w, tabs) /\ Direct
SearchAnyStep ==
  \E q \in Queries \cup {""}, pf \in Platforms \cup {"", "bing"},
     tabs \in AllTabLists :
    handle_search_query(q, pf, tabs) /\ Direct

NextBrowsing ==
  \/ BrowserOpeningStep
  \/ CancelWorkflowStep
  \/ WebsiteAnyStep
  \/ SearchAnyStep

SpecBrowsing == Init /\ [][NextBrowsing]_vars

\* The dialogue: utterances go through process_command, and time passes
\* between them.
SpecDialogue == Init /\ [][ProcessCommandStep \/ AdvanceStep]_vars

\* The manager with its observers: plans are started and cancelled, Chrome is
\* opened, profiles are answered, time passes, and the observers are called.
IsStateExpiredStep ==
  Observe("is_state_expired", IF is_state_expired THEN "True" ELSE "False") /\ Direct
GetCurrentStateInfoStep ==
  Observe("get_current_state_info", get_current_state_info) /\ Direct
GetHelpMessageStep == Observe("get_help_message", get_help_message(state)) /\ Direct

NextObserved ==
  \/ StartWorkflowStep
  \/ CancelWorkflowStep
  \/ OpenChromeStep
  \/ ProfileSelectionStep
  \/ AdvanceStep
  \/ IsStateExpiredStep
  \/ GetCurrentStateInfoStep
  \/ GetHelpMessageStep

SpecObserved == Init /\ [][NextObserved]_vars

\* ------------------------------------------------------------------ Workflow
\* The step lists of the plans.
PlanSteps == {<<>>, <<"open">>, <<"open", "profile", "site">>}

\* Workflow.__init__(name, steps)
Workflow(name, steps) == [name |-> name, steps |-> steps, current_step |-> 0]

\* A next_step() that moves the cursor also when it returns None.
next_step_Overruns ==
  LET w == current_workflow IN
  /\ w # NoWorkflow
  /\ calls < MaxCalls
  /\ calls' = calls + 1
  /\ current_workflow' = [w EXCEPT !.current_step = @ + 1]
  /\ last' = Call("next_step", None, None, "value", FALSE,
                  IF w.current_step < Len(w.steps)
                  THEN w.steps[w.current_step + 1] ELSE None)
  /\ trace' = <<>>
  /\ UNCHANGED <<state, waiting_for, browser_process, selected_profile,
                 current_url, state_started_at, current_task, now, spawned>>

\* Workflow.next_step() on the plan (Python counts the steps from 0)
next_step ==
  LET w == current_workflow IN
  /\ w # NoWorkflow
  /\ calls < MaxCalls
  /\ calls' = calls + 1
  /\ IF w.current_step < Len(w.steps)
     THEN /\ current_workflow' = [w EXCEPT !.current_step = @ + 1]
          /\ last' = Call("next_step", None, None, "value", FALSE,
                          w.steps[w.current_step + 1])
     ELSE /\ UNCHANGED current_workflow
          /\ last' = Call("next_step", None, None, "value", FALSE, None)
  /\ trace' = <<>>
  /\ UNCHANGED <<state, waiting_for, browser_process, selected_profile,
                 current_url, state_started_at, current_task, now, spawned>>

\* Workflow.is_complete()
is_complete(workflow) == workflow.current_step >= Len(workflow.steps)

\* The frame of a call on a component: the manager and the dispatcher stay.
Aside ==
  /\ heard' = NotHeard
  /\ UNCHANGED <<last_app_mentioned, running, tab_manager, failed_attempts>>

NextStepStep ==
  /\ next_step /\ Aside
  /\ UNCHANGED <<conversation_history, history, max_items, adds, tts_queue,
                 unfinished_tasks, is_speaking, worker, played, queued, caller,
                 last_check, last_result, wall>>
IsCompleteStep ==
  /\ current_workflow # NoWorkflow
  /\ Observe("is_complete",
             IF is_complete(current_workflow) THEN "True" ELSE "False")
  /\ Direct
GetProgressStep ==
  /\ current_workflow # NoWorkflow
  /\ Observe("get_progress", get_progress(current_workflow))
  /\ Direct

\* A plan is made and stepped through, and asked where it is.
InitPlan ==
  \E name \in {"browse", "search"}, steps \in PlanSteps :
    Constructed(Workflow(name, steps), max_history_items)

NextPlan ==
  \/ NextStepStep
  \/ IsCompleteStep
  \/ GetProgressStep

SpecPlan == InitPlan /\ [][NextPlan]_vars

\* ------------------------------------------------------------------ histories
\* The sizes a ConversationHistory is constructed with.
MaxItemsChoices == {0, 1, 3, max_history_items}

\* An add_to_history that drops the newest entry when the history is full.
add_to_history_DropsNewest ==
  LET entry == adds.context + 1
      appended == Append(conversation_history, entry)
  IN /\ adds.context < MaxAdds
     /\ conversation_history' =
          IF Len(appended) > max_history
          THEN SubSeq(appended, 1, Len(appended) - 1)
          ELSE appended
     /\ adds' = [adds EXCEPT !.context = @ + 1]
     /\ last' = Call("add_to_history", entry, None, "none", FALSE, None)
     /\ trace' = <<>>

\* ContextManager.add_to_history(...): the entry is appended and, the history
\* being longer than max_history then, its first entry is popped. The entry
\* is known by its number in the order of the additions.
add_to_history ==
  LET entry == adds.context + 1
      appended == Append(conversation_history, entry)
  IN /\ adds.context < MaxAdds
     /\ conversation_history' =
          IF Len(appended) > max_history THEN Tail(appended) ELSE appended
     /\ adds' = [adds EXCEPT !.context = @ + 1]
     /\ last' = Call("add_to_history", entry, None, "none", FALSE, None)
     /\ trace' = <<>>

\* ConversationHistory.add(...)
add ==
  LET entry == adds.history + 1
      appended == Append(history, entry)
  IN /\ adds.history < MaxAdds
     /\ history' = IF Len(appended) > max_items THEN Tail(appended) ELSE appended
     /\ adds' = [adds EXCEPT !.history = @ + 1]
     /\ last' = Call("add", entry, None, "none", FALSE, None)
     /\ trace' = <<>>

AddToHistoryStep ==
  /\ add_to_history /\ Aside
  /\ UNCHANGED <<state, waiting_for, current_workflow, browser_process,
                 selected_profile, current_url, state_started_at, current_task,
                 now, spawned>>
  /\ UNCHANGED <<calls, history, max_items, tts_queue, unfinished_tasks,
                 is_speaking, worker, played, queued, caller, last_check,
                 last_result, wall>>
HistoryAddStep ==
  /\ add /\ Aside
  /\ UNCHANGED <<state, waiting_for, current_workflow, browser_process,
                 selected_profile, current_url, state_started_at, current_task,
                 now, spawned>>
  /\ UNCHANGED <<calls, conversation_history, max_items, tts_queue,
                 unfinished_tasks, is_speaking, worker, played, queued, caller,
                 last_check, last_result, wall>>

\* Entries are added to the two histories, the ConversationHistory being of
\* one of the sizes.
InitHistory == \E items \in MaxItemsChoices : Constructed(NoWorkflow, items)

NextHistory ==
  \/ AddToHistoryStep
  \/ HistoryAddStep

SpecHistory == InitHistory /\ [][NextHistory]_vars

\* ------------------------------------------------------------------ InternetChecker
\* timedelta.seconds of a difference of d seconds: the days are left out.
seconds(d) == d % SecondsPerDay

\* InternetChecker.is_connected() at the time t, last_check and last_result
\* being check and result; probe_ok: socket.create_connection succeeds (TRUE)
\* or raises OSError (FALSE). A datetime is always truthy.
is_connected_at(t, check, result, probe_ok) ==
  IF check # NoTime /\ seconds(t - check) < cache_duration
  THEN [probed |-> FALSE, last_check |-> check, last_result |-> result]
  ELSE [probed |-> TRUE, last_check |-> t, last_result |-> probe_ok]

\* The steps of a call of is_connected.
ProbeSteps(c) ==
  IF c.probed THEN <<Ev("create_connection", "8.8.8.8:53", 0)>> ELSE <<>>

is_connected(probe_ok) ==
  LET c == is_connected_at(wall, last_check, last_result, probe_ok) IN
  /\ last_check' = c.last_check
  /\ last_result' = c.last_result
  /\ trace' = ProbeSteps(c)
  /\ last' = Call("is_connected", None, None, "value", FALSE,
                  IF c.last_result THEN "True" ELSE "False")

\* The seconds that pass between two calls.
Gaps ==
  {cache_duration - 1, cache_duration, SecondsPerDay - 1, SecondsPerDay,
   SecondsPerDay + 5}

\* The wall clock moves on.
Wait(d) ==
  /\ wall + d <= MaxWall
  /\ d <= cache_duration => seconds(wall) + d <= MaxBurst
  /\ wall' = wall + d
  /\ last' = Call("wait", d, None, "none", FALSE, None)
  /\ trace' = <<>>

IsConnectedStep ==
  /\ \E probe_ok \in BOOLEAN : is_connected(probe_ok)
  /\ Aside
  /\ UNCHANGED <<state, waiting_for, current_workflow, browser_process,
                 selected_profile, current_url, state_started_at, current_task,
                 now, spawned>>
  /\ UNCHANGED <<calls, conversation_history, history, max_items, adds,
                 tts_queue, unfinished_tasks, is_speaking, worker, played,
                 queued, caller, wall>>
WaitStep ==
  /\ \E d \in Gaps : Wait(d)
  /\ Aside
  /\ UNCHANGED <<state, waiting_for, current_workflow, browser_process,
                 selected_profile, current_url, state_started_at, current_task,
                 now, spawned>>
  /\ UNCHANGED <<calls, conversation_history, history, max_items, adds,
                 tts_queue, unfinished_tasks, is_speaking, worker, played,
                 queued, caller, last_check, last_result>>

NextConnectivity ==
  \/ IsConnectedStep
  \/ WaitStep

SpecConnectivity == Init /\ [][NextConnectivity]_vars

\* ------------------------------------------------------------------ TTSEngine
\* The queue holds the utterances by their numbers; 0 stands for None, the
\* shutdown signal. A call is made by one of the threads of Callers.

\* What a call on the engine leaves alone.
SpeechFrame ==
  /\ Aside
  /\ UNCHANGED <<state, waiting_for, current_workflow, browser_process,
                 selected_profile, current_url, state_started_at, current_task,
                 now, spawned>>
  /\ UNCHANGED <<calls, conversation_history, history, max_items, adds, wall>>

\* TTSEngine.speak(text, lang, block): the item is put, and with block the
\* caller then waits in tts_queue.join().
speak(c, block) ==
  /\ caller[c].pc = "idle"
  /\ queued < MaxQueued
  /\ queued' = queued + 1
  /\ tts_queue' = Append(tts_queue, queued + 1)
  /\ unfinished_tasks' = unfinished_tasks + 1
  /\ caller' = [caller EXCEPT ![c] =
                  IF block THEN [pc |-> "join", mark |-> queued + 1] ELSE @]
  /\ last' = Call("speak", c, IF block THEN "True" ELSE "False", "none", FALSE, None)
  /\ trace' = <<>>
  /\ UNCHANGED <<is_speaking, worker, played, last_check, last_result>>

\* TTSEngine.wait_until_done(): the caller waits in tts_queue.join().
wait_until_done(c) ==
  /\ caller[c].pc = "idle"
  /\ caller' = [caller EXCEPT ![c] = [pc |-> "join", mark |-> queued]]
  /\ last' = Call("wait_until_done", c, None, "none", FALSE, None)
  /\ trace' = <<>>
  /\ UNCHANGED <<tts_queue, unfinished_tasks, is_speaking, worker, played,
                 queued, last_check, last_result>>

\* Queue.join() returns: no task is unfinished.
join_returns(c) ==
  /\ caller[c].pc = "join"
  /\ unfinished_tasks = 0
  /\ caller' = [caller EXCEPT ![c] = [pc |-> "idle", mark |-> 0]]
  /\ last' = Call("join returns", c, None, "none", FALSE, None)
  /\ trace' = <<>>
  /\ UNCHANGED <<tts_queue, unfinished_tasks, is_speaking, worker, played,
                 queued, last_check, last_result>>

\* TTSEngine.shutdown(): None is put, and the caller waits in
\* worker_thread.join().
shutdown(c) ==
  /\ caller[c].pc = "idle"
  /\ tts_queue' = Append(tts_queue, 0)
  /\ unfinished_tasks' = unfinished_tasks + 1
  /\ caller' = [caller EXCEPT ![c] = [pc |-> "join worker", mark |-> 0]]
  /\ last' = Call("shutdown", c, None, "none", FALSE, None)
  /\ trace' = <<>>
  /\ UNCHANGED <<is_speaking, worker, played, queued, last_check, last_result>>

\* worker_thread.join() returns: the worker has ended. The caller of
\* shutdown calls the engine no more.
shutdown_returns(c) ==
  /\ caller[c].pc = "join worker"
  /\ worker.pc = "exited"
  /\ caller' = [caller EXCEPT ![c] = [pc |-> "done", mark |-> 0]]
  /\ last' = Call("shutdown returns", c, None, "none", FALSE, None)
  /\ trace' = <<>>
  /\ UNCHANGED <<tts_queue, unfinished_tasks, is_speaking, worker, played,
                 queued, last_check, last_result>>

\* _tts_worker: tts_queue.get() returns an item; on None the loop is left
\* (without task_done()), else is_speaking is set.
worker_get ==
  /\ worker.pc = "get"
  /\ tts_queue # <<>>
  /\ tts_queue' = Tail(tts_queue)
  /\ IF Head(tts_queue) = 0
     THEN worker' = [pc |-> "exited", item |-> 0] /\ UNCHANGED is_speaking
     ELSE worker' = [pc |-> "speak", item |-> Head(tts_queue)] /\ is_speaking' = TRUE
  /\ last' = Call("_tts_worker get", None, None, "none", FALSE, None)
  /\ trace' = <<>>
  /\ UNCHANGED <<unfinished_tasks, played, queued, caller, last_check, last_result>>

\* _tts_worker: is_connected() is asked, the item is spoken (or no engine is
\* found), is_speaking is cleared and task_done() is called.
worker_speak(probe_ok) ==
  LET c == is_connected_at(wall, last_check, last_result, probe_ok) IN
  /\ worker.pc = "speak"
  /\ last_check' = c.last_check
  /\ last_result' = c.last_result
  /\ played' = Append(played, worker.item)
  /\ is_speaking' = FALSE
  /\ unfinished_tasks' = unfinished_tasks - 1
  /\ worker' = [pc |-> "get", item |-> 0]
  /\ last' = Call("_tts_worker speak", None, None, "none", FALSE, None)
  /\ trace' = ProbeSteps(c)
  /\ UNCHANGED <<tts_queue, queued, caller>>

SpeakStep == \E c \in Callers, block \in BOOLEAN : speak(c, block) /\ SpeechFrame
WaitUntilDoneStep == \E c \in Callers : wait_until_done(c) /\ SpeechFrame
JoinReturnsStep(c) == join_returns(c) /\ SpeechFrame
ShutdownStep == \E c \in Callers : shutdown(c) /\ SpeechFrame
ShutdownReturnsStep(c) == shutdown_returns(c) /\ SpeechFrame
WorkerGetStep == worker_get /\ SpeechFrame
WorkerSpeakStep == \E probe_ok \in BOOLEAN : worker_speak(probe_ok) /\ SpeechFrame

NextSpeech ==
  \/ SpeakStep
  \/ WaitUntilDoneStep
  \/ \E c \in Callers : JoinReturnsStep(c)
  \/ ShutdownStep
  \/ \E c \in Callers : ShutdownReturnsStep(c)
  \/ WorkerGetStep
  \/ WorkerSpeakStep

\* The worker is a thread of its own and runs whenever it can; a thread
\* waiting in a join() is released when what it waits for has come about.
SpeechFairness ==
  /\ WF_vars(WorkerGetStep)
  /\ WF_vars(WorkerSpeakStep)
  /\ \A c \in Callers : SF_vars(JoinReturnsStep(c))
  /\ \A c \in Callers : WF_vars(ShutdownReturnsStep(c))

SpecSpeech == Init /\ [][NextSpeech]_vars /\ SpeechFairness

\* ------------------------------------------------------------------ properties
\* The names of the steps of a trace, sleeps left out.
Kinds(tr) ==
  LET acts == SelectSeq(tr, LAMBDA e : e.ev # "sleep")
  IN [i \in 1..Len(acts) |-> acts[i].ev]

\* The states a trace sets, in order.
StatesSet(tr) ==
  LET sets == SelectSeq(tr, LAMBDA e : e.ev = "set_state")
  IN [i \in 1..Len(sets) |-> sets[i].arg]

\* A process was launched / the launch raised / a process was touched at all.
Launched(tr) ==
  \E i \in DOMAIN tr : tr[i].ev \in {"Popen", "browser_process = Popen"}
LaunchRaised(tr) == \E i \in DOMAIN tr : tr[i].ev = "Popen raises"
NoProcessTouched(tr) ==
  \A i \in DOMAIN tr :
    tr[i].ev \notin {"Popen", "browser_process = Popen", "Popen raises",
                     "terminate", "terminate raises"}

\* The utterances that are a profile alias and nothing else.
AliasUtterances ==
  {u \in Utterances : Strip(Lower(u)) \in DOMAIN selection_profile_map}

\* C1: handle_profile_selection called in a state other than PROFILE_SELECTION
\* returns a failed result and leaves state, waiting_for, selected_profile,
\* browser_process and state_started_at as they were, with no process
\* terminated or launched; and an utterance that is only a profile alias,
\* heard by the dispatcher in BROWSER_READY, leaves every workflow field
\* unchanged.
C1_StepOk ==
  /\ (last'.op = "handle_profile_selection" /\ last'.from = state
      /\ state # PROFILE_SELECTION)
     => /\ last'.ret = "pair" /\ ~last'.ok
        /\ last'.msg = "Not in profile selection mode"
        /\ NoProcessTouched(trace')
        /\ UNCHANGED <<state, waiting_for, selected_profile, browser_process,
                       state_started_at, spawned>>
  /\ (heard'.command \in AliasUtterances /\ heard'.from = state
      /\ state = BROWSER_READY)
     => UNCHANGED <<state, waiting_for, current_workflow, browser_process,
                    selected_profile, current_url, state_started_at>>

C1_OnlyInProfileSelection == [][C1_StepOk]_vars

\* "open chrome", "profile 1", then "amaan" heard in BROWSER_READY.
C1_Witness ==
  /\ heard.command = "amaan" /\ heard.from = BROWSER_READY
  /\ state = BROWSER_READY /\ selected_profile = "profile 1"
  /\ last_app_mentioned = "chrome"

\* C2: in PROFILE_SELECTION a text that is no alias (after lower-casing and
\* trimming) gets a failed result and leaves state, waiting_for,
\* browser_process, selected_profile and state_started_at as they were, with no
\* process terminated or launched; and after any number of such attempts a
\* valid alias whose launch does not raise succeeds and makes the browser ready.
C2_StepOk ==
  (last'.op = "handle_profile_selection" /\ state = PROFILE_SELECTION) =>
    /\ ParseProfileInput(last'.a1) \notin ProfileAliases =>
         /\ last'.ret = "pair" /\ ~last'.ok
         /\ state' = PROFILE_SELECTION
         /\ UNCHANGED <<waiting_for, browser_process, selected_profile,
                        state_started_at, spawned>>
         /\ NoProcessTouched(trace')
    /\ (ParseProfileInput(last'.a1) \in ProfileAliases /\ Launched(trace')) =>
         /\ last'.ret = "pair" /\ last'.ok
         /\ state' = BROWSER_READY
C2_RetryKeepsState == [][C2_StepOk]_vars

\* A valid alias succeeded after MaxAttempts or more unknown answers in a row.
C2_Witness ==
  /\ last.op = "handle_profile_selection" /\ last.ok
  /\ last.tries >= MaxAttempts /\ MaxAttempts >= 2
  /\ state = BROWSER_READY

\* C3 as stated: handle_browser_opening("chrome", None) always ends in
\* PROFILE_SELECTION with waiting_for set and a successful result that asks for
\* the profile, whatever the prior state.
C3_AlwaysAsksProfile ==
  (last.op = "handle_browser_opening" /\ last.a1 = "chrome" /\ last.a2 = None) =>
    /\ state = PROFILE_SELECTION /\ waiting_for # None
    /\ last.ret = "pair" /\ last.ok
    /\ Contains("Which profile?", last.msg)

\* C3 amended: handle_browser_opening("chrome", None) whose launch does not
\* raise ends, from any prior state, in PROFILE_SELECTION with waiting_for set
\* and a successful result that asks for the profile; when the launch raises it
\* ends in IDLE with a failed result.
C3_AsksProfileWhenLaunched ==
  (last.op = "handle_browser_opening" /\ last.a1 = "chrome" /\ last.a2 = None) =>
    /\ Launched(trace) =>
         /\ state = PROFILE_SELECTION /\ waiting_for # None
         /\ last.ret = "pair" /\ last.ok
         /\ Contains("Which profile?", last.msg)
    /\ ~Launched(trace) =>
         /\ state = IDLE /\ last.ret = "pair" /\ ~last.ok

\* Chrome was reopened without a profile while the browser was ready.
C3_Witness ==
  /\ last.op = "handle_browser_opening" /\ last.a1 = "chrome" /\ last.a2 = None
  /\ last.from = BROWSER_READY /\ Launched(trace)
  /\ state = PROFILE_SELECTION

\* C4: handle_browser_opening("chrome", p) with a non-empty profile p whose
\* launch succeeds sets BROWSER_STARTING and then BROWSER_READY, never
\* PROFILE_SELECTION, and ends with waiting_for = None and a successful result.
C4_StraightToReady ==
  (last.op = "handle_browser_opening" /\ last.a1 = "chrome"
   /\ last.a2 \notin {None, ""} /\ Launched(trace)) =>
    /\ StatesSet(trace) = <<BROWSER_STARTING, BROWSER_READY>>
    /\ state = BROWSER_READY /\ waiting_for = None
    /\ last.ret = "pair" /\ last.ok

\* Chrome was opened with a profile while a profile was being asked for.
C4_Witness ==
  /\ last.op = "handle_browser_opening" /\ last.a1 = "chrome" /\ last.a2 = "Work"
  /\ last.from = PROFILE_SELECTION /\ Launched(trace)
  /\ state = BROWSER_READY

\* x is the alias a in some letter case.
CaseVariant(x, a) ==
  /\ Len(x) = Len(a)
  /\ \A i \in 1..Len(a) :
       \/ CharAt(x, i) = CharAt(a, i)
       \/ \E k \in 1..Len(UpperChars) :
            CharAt(x, i) = CharAt(UpperChars, k) /\ CharAt(a, i) = CharAt(LowerChars, k)

\* The profile directory the fixed mapping gives each alias.
ExpectedDir(a) ==
  CASE a \in {"default", "me"} -> "Default"
    [] a \in {"profile 1", "profile1", "1", "amaan"} -> "Profile 1"
    [] a \in {"profile 2", "profile2", "2", "work"} -> "Profile 2"

\* The command lines of the launches a trace attempts.
LaunchCmds(tr) ==
  LET ls == SelectSeq(tr, LAMBDA e :
              e.ev \in {"Popen", "browser_process = Popen", "Popen raises"})
  IN [i \in 1..Len(ls) |-> ls[i].arg]

\* C5: for each of the ten aliases, in any letter case, handle_profile_selection
\* called in PROFILE_SELECTION launches Chrome exactly once, with the profile
\* directory of the fixed mapping: default/me -> Default; profile 1/profile1/1/
\* amaan -> Profile 1; profile 2/profile2/2/work -> Profile 2.
C5_AliasToDirectory ==
  \A a \in ProfileAliases :
    (last.op = "handle_profile_selection" /\ last.from = PROFILE_SELECTION
     /\ CaseVariant(last.a1, a)) =>
      LaunchCmds(trace) =
        <<"google-chrome --profile-directory=\"" \o ExpectedDir(a) \o "\"">>

\* "AMAAN" was answered and Chrome was launched with Profile 1.
C5_Witness ==
  /\ last.op = "handle_profile_selection" /\ last.from = PROFILE_SELECTION
  /\ last.a1 = "AMAAN" /\ last.ok
  /\ LaunchCmds(trace) = <<"google-chrome --profile-directory=\"Profile 1\"">>

\* C6: cancel_workflow called in any state, with or without an active plan,
\* results in state = IDLE, waiting_for = None and no current workflow.
C6_CancelResets ==
  last.op = "cancel_workflow" =>
    state = IDLE /\ waiting_for = None /\ current_workflow = NoWorkflow

\* cancel_workflow was called in PROFILE_SELECTION with a plan active.
C6_Witness ==
  /\ last.op = "cancel_workflow" /\ last.from = PROFILE_SELECTION
  /\ last.plan = "browse" /\ state = IDLE

\* C7: when the launch raises in handle_browser_opening (Chrome or another
\* browser) or in handle_profile_selection with a valid alias, the call returns
\* a failed (success, message) pair, the state becomes IDLE with waiting_for =
\* None, and selected_profile and browser_process keep their values.
C7_StepOk ==
  (last'.op \in {"handle_browser_opening", "handle_profile_selection"}
   /\ LaunchRaised(trace')) =>
    /\ last'.ret = "pair" /\ ~last'.ok
    /\ state' = IDLE /\ waiting_for' = None
    /\ UNCHANGED <<selected_profile, browser_process>>
C7_LaunchFailureAbandons == [][C7_StepOk]_vars

\* The launch raised in handle_profile_selection with a valid alias while a
\* process and a profile of an earlier session were tracked.
C7_Witness ==
  /\ last.op = "handle_profile_selection" /\ LaunchRaised(trace)
  /\ state = IDLE /\ browser_process # 0 /\ selected_profile # None

\* C8: a successful handle_profile_selection attempts to terminate the tracked
\* browser process, then launches the new Chrome instance, then stores the
\* profile, then sets BROWSER_READY; the launch is attempted also when
\* terminate() raises, and afterwards browser_process is the process launched
\* last.
C8_SelectionOrder ==
  /\ (last.op = "handle_profile_selection" /\ last.ok) =>
       /\ Kinds(trace) \in
            {<<"terminate", "browser_process = Popen", "selected_profile =", "set_state">>,
             <<"terminate raises", "browser_process = Popen", "selected_profile =",
               "set_state">>}
       /\ StatesSet(trace) = <<BROWSER_READY>>
       /\ browser_process = spawned /\ browser_process # trace[1].n
  /\ (last.op = "handle_profile_selection" /\ Len(trace) > 0
      /\ trace[1].ev = "terminate raises") =>
       /\ Len(trace) >= 2
       /\ trace[2].ev \in {"browser_process = Popen", "Popen raises"}

\* terminate() raised and the new instance was launched all the same.
C8_Witness ==
  /\ last.op = "handle_profile_selection" /\ last.ok
  /\ Len(trace) > 0 /\ trace[1].ev = "terminate raises"
  /\ browser_process = spawned

\* C9: between operations, state = IDLE implies waiting_for = None, state =
\* PROFILE_SELECTION implies waiting_for is set, and state = BROWSER_READY
\* implies waiting_for = None.
C9_WaitingForByState ==
  /\ state = IDLE => waiting_for = None
  /\ state = PROFILE_SELECTION => waiting_for # None
  /\ state = BROWSER_READY => waiting_for = None

\* The browser became ready through a profile selection.
C9_Witness ==
  /\ state = BROWSER_READY /\ waiting_for = None
  /\ last.op = "handle_profile_selection" /\ last.from = PROFILE_SELECTION

\* C10 as stated: immediately after an operation that changes the workflow
\* state (handle_browser_opening, handle_profile_selection when it acts, and
\* cancel_workflow leaving a state for IDLE) is_state_expired() is false.
C10_FreshAfterTransition ==
  (\/ last.op = "handle_browser_opening"
   \/ last.op = "handle_profile_selection" /\ StatesSet(trace) # <<>>
   \/ last.op = "cancel_workflow" /\ last.from # IDLE) =>
    ~is_state_expired

\* The observers of the manager.
Observers == {"is_state_expired", "get_current_state_info", "get_help_message"}

\* C11: is_state_expired, get_current_state_info and get_help_message change no
\* field of the manager and none of the active plan; observing an expired
\* state does not move it to IDLE, however much time has passed.
C11_StepOk ==
  last'.op \in Observers =>
    /\ UNCHANGED <<state, waiting_for, current_workflow, browser_process,
                   selected_profile, current_url, state_started_at>>
    /\ (last'.op = "is_state_expired" /\ last'.msg = "True") => state' = state
C11_ObserversChangeNothing == [][C11_StepOk]_vars

\* An expired PROFILE_SELECTION was observed while a plan was active, and is
\* still PROFILE_SELECTION.
C11_Witness ==
  /\ last.op = "is_state_expired" /\ last.msg = "True"
  /\ state = PROFILE_SELECTION /\ current_workflow # NoWorkflow
  /\ now - state_started_at > state_timeout * TicksPerSecond

\* An utterance was handed to process_command in this step.
Uttered == heard'.command # None /\ heard'.from = state

\* C12 as stated: while the state is PROFILE_SELECTION every non-empty
\* utterance is handed to handle_profile_selection and no keyword branch
\* (greeting, owner name, ...) handles it.
C12_StepOk ==
  (Uttered /\ heard'.command # "" /\ state = PROFILE_SELECTION) =>
    /\ heard'.branches = <<"profile selection">>
    /\ last'.op = "handle_profile_selection"
C12_StateBeforeKeywords == [][C12_StepOk]_vars

\* C13 as stated: an utterance that arrives when the state has expired is
\* processed from IDLE, cancel_workflow having been called first; it is never
\* taken as the answer to the profile question.
C13_StepOk ==
  (Uttered /\ is_state_expired) =>
    /\ heard'.from = IDLE
    /\ "profile selection" \notin Range(heard'.branches)
C13_ExpiredStateIsCancelled == [][C13_StepOk]_vars

\* C14: under process_command the state PROFILE_SELECTION, once entered, is
\* left neither by the passing of time nor by an utterance that is not one of
\* the ten aliases; such an utterance ("open chrome", an exit phrase, ...)
\* launches nothing, does not restart the workflow and does not stop the
\* assistant.
C14_StepOk ==
  /\ (state = PROFILE_SELECTION /\ last'.op = "lapse") => state' = PROFILE_SELECTION
  /\ (state = PROFILE_SELECTION /\ Uttered
      /\ ParseProfileInput(heard'.command) \notin ProfileAliases) =>
       /\ state' = PROFILE_SELECTION /\ running'
       /\ heard'.returned = "True"
       /\ UNCHANGED <<waiting_for, state_started_at, browser_process,
                      selected_profile, spawned>>
C14_ProfileSelectionPersists == [][C14_StepOk]_vars

\* An exit phrase was said in a PROFILE_SELECTION that had expired, after
\* other utterances that were no alias; the state is still PROFILE_SELECTION.
C14_Witness ==
  /\ heard.command = "exit" /\ heard.from = PROFILE_SELECTION
  /\ state = PROFILE_SELECTION /\ is_state_expired /\ running
  /\ failed_attempts >= MaxAttempts

\* The URLs a trace opened, in order.
Opened(tr) ==
  LET opens == SelectSeq(tr, LAMBDA e : e.ev = "webbrowser.open")
  IN [i \in 1..Len(opens) |-> opens[i].arg]

\* The tab titles get_all_tabs() returned to a trace, <<>> if it was not asked.
TabsRead(tr) ==
  LET reads == SelectSeq(tr, LAMBDA e : e.ev = "get_all_tabs")
  IN IF reads = <<>> THEN <<>> ELSE reads[1].arg

\* C15: handle_website_opening called in a state that is neither BROWSER_READY
\* nor IDLE, when the Tab Directory is absent or reports no tab, returns a
\* failed result, opens no URL and leaves state, waiting_for and current_url
\* as they were.
C15_StepOk ==
  (/\ last'.op = "handle_website_opening" /\ last'.from = state
   /\ state \notin {BROWSER_READY, IDLE}
   /\ (~tab_manager \/ TabsRead(trace') = <<>>)) =>
      /\ last'.ret = "pair" /\ ~last'.ok
      /\ Contains("No browser is open", last'.msg)
      /\ Opened(trace') = <<>>
      /\ UNCHANGED <<state, waiting_for, current_url, state_started_at,
                     browser_process, selected_profile>>
C15_NoBrowserNoWebsite == [][C15_StepOk]_vars

\* A website was asked for while the profile question was open and the Tab
\* Directory reported no tab.
C15_Witness ==
  /\ last.op = "handle_website_opening" /\ last.from = PROFILE_SELECTION
  /\ tab_manager /\ Kinds(trace) = <<"get_all_tabs">> /\ TabsRead(trace) = <<>>
  /\ ~last.ok /\ state = PROFILE_SELECTION

\* C16: handle_website_opening called in IDLE or BROWSER_READY succeeds for
\* every site name, whatever tabs are open and also when no browser was ever
\* opened; it opens one URL, stores it in current_url and leaves the state.
C16_StepOk ==
  (/\ last'.op = "handle_website_opening" /\ last'.from = state
   /\ state \in {IDLE, BROWSER_READY}) =>
      /\ last'.ret = "pair" /\ last'.ok
      /\ Len(Opened(trace')) = 1
      /\ current_url' = Opened(trace')[1]
      /\ current_url' =
           IF LowerText(last'.a1) \in DOMAIN WEBSITE_URLS
           THEN WEBSITE_URLS[LowerText(last'.a1)]
           ELSE "https://www.google.com/search?q=" \o last'.a1
      /\ UNCHANGED <<state, waiting_for, state_started_at>>
C16_WebsiteFromIdleOrReady == [][C16_StepOk]_vars

\* YouTube was opened in IDLE without a Tab Directory, no browser ever opened.
C16_Witness ==
  /\ last.op = "handle_website_opening" /\ last.a1 = "YouTube" /\ last.ok
  /\ state = IDLE /\ ~tab_manager /\ spawned = 0 /\ state_started_at = NoTime
  /\ current_url = "https://youtube.com"

\* C17: handle_search_query returns a successful result for every query,
\* platform, set of tabs and state, and leaves state, waiting_for,
\* selected_profile and browser_process as they were.
C17_StepOk ==
  (last'.op = "handle_search_query" /\ last'.from = state) =>
    /\ last'.ret = "pair" /\ last'.ok
    /\ UNCHANGED <<state, waiting_for, selected_profile, browser_process>>
C17_SearchNeverFails == [][C17_StepOk]_vars

\* An empty query was searched on an unknown platform while the profile
\* question was open.
C17_Witness ==
  /\ last.op = "handle_search_query" /\ last.a1 = "" /\ last.a2 = "bing"
  /\ last.ok /\ state = PROFILE_SELECTION /\ waiting_for # None

\* A title that names YouTube or Google, whatever the letter case.
NamesYoutube(title) == Contains("youtube", LowerText(title))
NamesGoogle(title) == Contains("google", LowerText(title))

\* The positions of the first tab whose title names YouTube or Google.
FirstMatching(tabs) ==
  {i \in DOMAIN tabs :
     /\ NamesYoutube(tabs[i]) \/ NamesGoogle(tabs[i])
     /\ \A j \in 1..(i - 1) : ~NamesYoutube(tabs[j]) /\ ~NamesGoogle(tabs[j])}

\* url is prefix followed by query with "+" for each blank.
IsSearchUrl(url, prefix, query) ==
  /\ Len(url) = Len(prefix) + Len(query)
  /\ SubSeq(url, 1, Len(prefix)) = prefix
  /\ \A i \in 1..Len(query) :
       CharAt(url, Len(prefix) + i) =
         IF CharAt(query, i) = " " THEN "+" ELSE CharAt(query, i)

YoutubeSearch == "https://www.youtube.com/results?search_query="
GoogleSearch == "https://www.google.com/search?q="

\* C18: with no platform given, handle_search_query takes the first tab, in
\* the order they are returned, whose title names YouTube or Google: it opens
\* a YouTube results URL if that title names YouTube, and a Google search URL
\* if it names only Google or no tab matches; later tabs do not count. Blanks
\* of the query are "+" in the URL.
C18_StepOk ==
  (last'.op = "handle_search_query" /\ ~Truthy(last'.a2)) =>
    LET tabs == TabsRead(trace')
        first == FirstMatching(tabs)
    IN /\ Len(Opened(trace')) = 1
       /\ IF \E i \in first : NamesYoutube(tabs[i])
          THEN IsSearchUrl(Opened(trace')[1], YoutubeSearch, last'.a1)
          ELSE IsSearchUrl(Opened(trace')[1], GoogleSearch, last'.a1)
C18_FirstMatchingTabDecides == [][C18_StepOk]_vars

\* A Google tab stood before a YouTube tab, after a tab that names neither:
\* Google was searched, with "+" for the blank.
C18_Witness ==
  /\ last.op = "handle_search_query" /\ last.a2 = None
  /\ TabsRead(trace) = <<"Inbox", "GOOGLE Maps", "youtube">>
  /\ Opened(trace) = <<"https://www.google.com/search?q=funny+cats">>

\* C19 as stated: with no platform given, a YouTube search URL is opened
\* whenever some open tab names YouTube, whatever the other tabs and their
\* order, and a generic search only when no tab names YouTube.
C19_StepOk ==
  (last'.op = "handle_search_query" /\ ~Truthy(last'.a2) /\ tab_manager) =>
    LET tabs == TabsRead(trace')
    IN (\E i \in DOMAIN tabs : NamesYoutube(tabs[i]))
         <=> IsSearchUrl(Opened(trace')[1], YoutubeSearch, last'.a1)
C19_AnyYoutubeTab == [][C19_StepOk]_vars

\* C19 amended: with no platform given, a YouTube search URL is opened exactly
\* when some open tab names YouTube and no tab before it names Google;
\* otherwise a generic (Google) search is opened.
C19_AmendedStepOk ==
  (last'.op = "handle_search_query" /\ ~Truthy(last'.a2) /\ tab_manager) =>
    LET tabs == TabsRead(trace')
        youtube == \E i \in DOMAIN tabs :
                     /\ NamesYoutube(tabs[i])
                     /\ \A j \in 1..(i - 1) : ~NamesGoogle(tabs[j])
    IN /\ youtube => IsSearchUrl(Opened(trace')[1], YoutubeSearch, last'.a1)
       /\ ~youtube => IsSearchUrl(Opened(trace')[1], GoogleSearch, last'.a1)
C19_YoutubeTabBeforeGoogle == [][C19_AmendedStepOk]_vars

\* A YouTube tab that is not the first tab decided the platform.
C19_Witness ==
  /\ last.op = "handle_search_query" /\ last.a2 = "" /\ tab_manager
  /\ TabsRead(trace) = <<"Inbox", "Watch on YouTube via Google">>
  /\ Opened(trace) = <<"https://www.youtube.com/results?search_query=funny+cats">>

\* The operations of the manager that assign its fields and are called from
\* outside.
Mutators ==
  {"handle_browser_opening", "handle_profile_selection", "handle_website_opening",
   "handle_search_query", "cancel_workflow"}

\* C20 as stated: handle_browser_opening, handle_profile_selection,
\* handle_website_opening, handle_search_query and cancel_workflow return a
\* pair (success, message) on every path.
C20_MutatorsReturnPair ==
  last.op \in Mutators => last.ret = "pair" /\ last.ok \in BOOLEAN /\ last.msg # None

\* C21 as stated: after every successful handle_browser_opening, for Chrome or
\* another browser, and every successful handle_profile_selection,
\* browser_process is the handle of the process that call launched.
C21_TracksLaunchedProcess ==
  (last.op \in {"handle_browser_opening", "handle_profile_selection"} /\ last.ok) =>
    /\ Launched(trace)
    /\ browser_process = spawned

\* C22 as stated: current_url is the URL the manager opened last, by
\* handle_website_opening or handle_search_query, and null while it has opened
\* none.
C22_StepOk ==
  IF Opened(trace') # <<>> /\ last'.op \in {"handle_website_opening", "handle_search_query"}
  THEN current_url' = Opened(trace')[Len(Opened(trace'))]
  ELSE UNCHANGED current_url
C22_CurrentUrlIsLastOpened == [][C22_StepOk]_vars

\* The four handlers of the manager.
Handlers ==
  {"handle_browser_opening", "handle_profile_selection", "handle_website_opening",
   "handle_search_query"}

\* The result and the state a handler ends in, from the state it was called
\* in, its arguments and what its environment did (tr): no plan is named.
Outcome_ok(op, a1, a2, from, tr) ==
  CASE op = "handle_browser_opening" -> ~LaunchRaised(tr)
    [] op = "handle_profile_selection" ->
         /\ from = PROFILE_SELECTION
         /\ Strip(LowerText(a1)) \in ProfileAliases
         /\ ~LaunchRaised(tr)
    [] op = "handle_website_opening" ->
         ~(from \notin {BROWSER_READY, IDLE} /\ (~tab_manager \/ TabsRead(tr) = <<>>))
    [] OTHER -> TRUE
Outcome_state(op, a1, a2, from, tr) ==
  CASE op = "handle_browser_opening" ->
         IF LaunchRaised(tr) THEN IDLE
         ELSE IF LowerText(a1) = "chrome" /\ ~Truthy(a2) THEN PROFILE_SELECTION
         ELSE BROWSER_READY
    [] op = "handle_profile_selection" ->
         IF from # PROFILE_SELECTION \/ Strip(LowerText(a1)) \notin ProfileAliases
         THEN from
         ELSE IF LaunchRaised(tr) THEN IDLE ELSE BROWSER_READY
    [] OTHER -> from

\* C23: there is one plan at most, start_workflow replacing the earlier one,
\* and the four handlers neither change the plan or its cursor nor depend on
\* it: their result and the state they end in are what the prior state, the
\* arguments and the environment determine, with a plan active and without.
C23_StepOk ==
  /\ last'.op = "start_workflow" =>
       /\ current_workflow'.name = last'.a1 /\ current_workflow'.current_step = 0
       /\ UNCHANGED <<state, waiting_for, browser_process, selected_profile,
                      current_url, state_started_at>>
  /\ (last'.op \in Handlers /\ last'.from = state) =>
       /\ UNCHANGED current_workflow
       /\ last'.ok = Outcome_ok(last'.op, last'.a1, last'.a2, state, trace')
       /\ state' = Outcome_state(last'.op, last'.a1, last'.a2, state, trace')
C23_PlanIsNotConsulted == [][C23_StepOk]_vars

\* A profile was selected with a plan active that had replaced another, and
\* the plan and its cursor are as start_workflow left them.
C23_Witness ==
  /\ last.op = "handle_profile_selection" /\ last.ok /\ last.plan = "search"
  /\ current_workflow = [name |-> "search", steps |-> <<"open", "profile">>,
                         current_step |-> 0]
  /\ state = BROWSER_READY

\* C24 as stated: for every utterance process_command runs one branch at most
\* and speaks one response at most; an utterance one keyword branch handled
\* is not handled again by a later branch, the exit check or the fallback for
\* unknown commands.
C24_OneBranchOneResponse ==
  heard.command # None => Len(heard.branches) <= 1 /\ Len(heard.spoken) <= 1

\* What an open-Chrome command says besides "open" and "chrome".
BesidesOpenChrome(cl) == Replace(Replace(cl, "chrome", ""), "open", "")

\* C25 as stated: an open-Chrome utterance that names none of the profiles,
\* also one that says "profile" followed by nothing recognized, makes
\* process_command call handle_browser_opening("chrome", None), so that the
\* profile is asked for (PROFILE_SELECTION when the launch succeeds) and none
\* is guessed.
C25_UnnamedProfileIsAsked ==
  (/\ heard.command # None /\ heard.branches = <<"chrome">>
   /\ \A a \in ProfileAliases :
        ~Contains(a, BesidesOpenChrome(LowerText(heard.command)))) =>
     /\ last.op = "handle_browser_opening" /\ last.a1 = "chrome" /\ last.a2 = None
     /\ Launched(trace) => state = PROFILE_SELECTION /\ waiting_for # None

\* C29 as stated: the profile branch of process_command, which rewrites the
\* alias and asks get_chrome_profile_command, launches Chrome with the same
\* profile directory as handle_profile_selection and _get_chrome_profile give
\* for that alias.
C29_AliasPathsAgree ==
  (/\ heard.command # None /\ "profile" \in Range(heard.branches)
   /\ heard.launched # None
   /\ ParseProfileInput(heard.command) \in ProfileAliases) =>
     /\ heard.launched =
          ChromeProfileCmd(selection_profile_map[ParseProfileInput(heard.command)])
     /\ heard.launched =
          ChromeProfileCmd(_get_chrome_profile(ParseProfileInput(heard.command)))

\* C26: until its first transition a WorkflowManager is IDLE with waiting_for,
\* browser_process, selected_profile and current_url null, and after
\* construction without a plan; is_state_expired() is False however much time
\* has passed, get_current_state_info reports "idle" and no plan, and
\* get_help_message returns the text of IDLE.
C26_FreshManager ==
  state_started_at = NoTime =>
    /\ state = IDLE /\ waiting_for = None /\ browser_process = 0
    /\ selected_profile = None /\ current_url = None
    /\ last.op = "__init__" => current_workflow = NoWorkflow
    /\ ~is_state_expired
    /\ last.op = "is_state_expired" => last.msg = "False"
    /\ (last.op = "get_current_state_info" /\ current_workflow = NoWorkflow) =>
         last.msg = [state |-> "idle", waiting_for |-> None, workflow |-> None,
                     workflow_progress |-> None]
    /\ last.op = "get_help_message" =>
         last.msg = "Ready! Try: 'Open Chrome', 'Open Firefox', or 'What apps are running?'"

\* More than the timeout after construction, with no transition made, the
\* manager was asked whether its state has expired and said no.
C26_Witness ==
  /\ state_started_at = NoTime
  /\ now - StartTime > state_timeout * TicksPerSecond
  /\ last.op = "is_state_expired" /\ last.msg = "False"

\* What handle_browser_opening returns and leaves behind, from its arguments
\* and whether the launch succeeded.
BrowserOpeningOutcome(browser_name, profile, launched) ==
  LET chrome == LowerText(browser_name) = "chrome" IN
  [ok |-> launched,
   state |-> IF ~launched THEN IDLE
             ELSE IF chrome /\ ~Truthy(profile) THEN PROFILE_SELECTION
             ELSE BROWSER_READY,
   asks |-> launched /\ chrome /\ ~Truthy(profile),
   task |-> "opening_" \o browser_name]

\* C27: handle_browser_opening is accepted in every state: it always enters
\* BROWSER_STARTING, and its result, the state it ends in, waiting_for and the
\* task it records are determined by its arguments and the success of the
\* launch alone, whatever the prior state, waiting_for and plan were.
C27_StepOk ==
  (last'.op = "handle_browser_opening" /\ last'.from = state) =>
    LET o == BrowserOpeningOutcome(last'.a1, last'.a2, Launched(trace')) IN
    /\ Len(StatesSet(trace')) > 0 /\ StatesSet(trace')[1] = BROWSER_STARTING
    /\ Launched(trace') # LaunchRaised(trace')
    /\ last'.ret = "pair" /\ last'.ok = o.ok
    /\ state' = o.state
    /\ (waiting_for' # None) = o.asks
    /\ current_task' = o.task
C27_AcceptedInEveryState == [][C27_StepOk]_vars

\* Firefox was opened while a browser was ready and a plan was active.
C27_Witness ==
  /\ last.op = "handle_browser_opening" /\ last.a1 = "Firefox"
  /\ last.from = BROWSER_READY /\ last.plan = "browse"
  /\ last.ok /\ state = BROWSER_READY

\* C28: handle_browser_opening("chrome", p) with p non-empty and no alias
\* launches Chrome with the profile directory Default and, the launch
\* succeeding, stores p as it was given, ends in BROWSER_READY and reports
\* success; afterwards selected_profile changes only when another profile is
\* stored by handle_browser_opening or a successful handle_profile_selection.
C28_StepOk ==
  /\ (last'.op = "handle_browser_opening" /\ last'.from = state
      /\ LowerText(last'.a1) = "chrome" /\ Truthy(last'.a2)
      /\ LowerText(last'.a2) \notin ProfileAliases) =>
       /\ LaunchCmds(trace') = <<"google-chrome --profile-directory=\"Default\"">>
       /\ Launched(trace') =>
            /\ selected_profile' = last'.a2
            /\ state' = BROWSER_READY /\ waiting_for' = None
            /\ last'.ret = "pair" /\ last'.ok
  /\ selected_profile' # selected_profile =>
       \/ /\ last'.op = "handle_browser_opening" /\ Truthy(last'.a2)
          /\ selected_profile' = last'.a2
       \/ last'.op = "handle_profile_selection" /\ last'.ok
C28_UnknownProfileIsKept == [][C28_StepOk]_vars

\* Chrome was opened with the profile "guest", and a website was opened
\* afterwards with that profile still stored.
C28_Witness ==
  /\ selected_profile = "guest"
  /\ last.op = "handle_website_opening" /\ last.ok
  /\ state = BROWSER_READY

\* C30: between operations the state is IDLE, PROFILE_SELECTION or
\* BROWSER_READY; BROWSER_STARTING is set only inside handle_browser_opening,
\* which leaves it before returning; SEARCHING, VIDEO_PLAYING and APP_OPENING
\* are never set.
C30_RestingStates ==
  /\ state \in {IDLE, PROFILE_SELECTION, BROWSER_READY}
  /\ \A i \in DOMAIN StatesSet(trace) :
       /\ StatesSet(trace)[i] \notin {SEARCHING, VIDEO_PLAYING, APP_OPENING}
       /\ StatesSet(trace)[i] = BROWSER_STARTING =>
            /\ last.op = "handle_browser_opening"
            /\ i < Len(StatesSet(trace))

\* A launch raised: BROWSER_STARTING was entered and left for IDLE.
C30_Witness ==
  /\ last.op = "handle_browser_opening" /\ LaunchRaised(trace)
  /\ StatesSet(trace) = <<BROWSER_STARTING, IDLE>>
  /\ state = IDLE

\* The processes a trace terminates or tries to terminate.
Terminated(tr) ==
  LET ts == SelectSeq(tr, LAMBDA e : e.ev \in {"terminate", "terminate raises"})
  IN [i \in 1..Len(ts) |-> ts[i].n]

\* C31: whenever the state is PROFILE_SELECTION, browser_process is non-null
\* and is the process of the handle_browser_opening call that entered
\* PROFILE_SELECTION, launched as plain google-chrome and kept by every call
\* that stays there; a successful handle_profile_selection attempts to
\* terminate that process and no other.
C31_StepOk ==
  /\ state' = PROFILE_SELECTION =>
       /\ browser_process' # 0
       /\ IF last'.op = "handle_browser_opening"
          THEN /\ LaunchCmds(trace') = <<"google-chrome">>
               /\ browser_process' = spawned + 1 /\ spawned' = spawned + 1
          ELSE state = PROFILE_SELECTION /\ UNCHANGED <<browser_process, spawned>>
  /\ (last'.op = "handle_profile_selection" /\ last'.ok) =>
       /\ state = PROFILE_SELECTION
       /\ Terminated(trace') = <<browser_process>>
C31_SelectionOwnsChromeProcess == [][C31_StepOk]_vars

\* A profile was selected: the first Chrome process was terminated and the
\* second one is tracked.
C31_Witness ==
  /\ last.op = "handle_profile_selection" /\ last.ok
  /\ Terminated(trace) = <<1>>
  /\ browser_process = 2

\* C32: cancel_workflow assigns state, waiting_for and current_workflow and
\* nothing else: no process is terminated, and browser_process,
\* selected_profile, current_url and state_started_at stay as they were;
\* handle_browser_opening without a profile leaves selected_profile as it was.
C32_StepOk ==
  /\ last'.op = "cancel_workflow" =>
       /\ state' = IDLE /\ waiting_for' = None /\ current_workflow' = NoWorkflow
       /\ trace' = <<>>
       /\ UNCHANGED <<browser_process, selected_profile, current_url,
                      state_started_at, current_task, spawned>>
  /\ (last'.op = "handle_browser_opening" /\ ~Truthy(last'.a2)) =>
       UNCHANGED selected_profile
C32_CancelKeepsSession == [][C32_StepOk]_vars

\* A workflow was cancelled with a process tracked, a profile stored and a
\* transition made earlier: the state is IDLE and all three are still there.
C32_Witness ==
  /\ last.op = "cancel_workflow" /\ last.from = PROFILE_SELECTION
  /\ state = IDLE
  /\ selected_profile = "Work" /\ browser_process # 0
  /\ state_started_at # NoTime

\* The position of the first step of the kinds ks in a trace (0: none).
FirstOf(tr, ks) ==
  IF \E i \in DOMAIN tr : tr[i].ev \in ks
  THEN CHOOSE i \in DOMAIN tr :
         tr[i].ev \in ks /\ \A j \in 1..(i - 1) : tr[j].ev \notin ks
  ELSE 0

\* C33: every call of handle_browser_opening(name, ...) sets current_task to
\* "opening_<name>" before the launch is attempted, and no other operation of
\* the manager assigns current_task: after a failed launch, a completed
\* profile selection and cancel_workflow it holds the value still.
C33_StepOk ==
  IF last'.op = "handle_browser_opening"
  THEN /\ current_task' = "opening_" \o last'.a1
       /\ FirstOf(trace', {"set_task"}) > 0
       /\ FirstOf(trace', {"set_task"})
            < FirstOf(trace', {"Popen", "browser_process = Popen", "Popen raises"})
       /\ trace'[FirstOf(trace', {"set_task"})].arg = "opening_" \o last'.a1
  ELSE UNCHANGED current_task
C33_TaskIsRecordedAndKept == [][C33_StepOk]_vars

\* Firefox failed to launch after a profile had been selected, the workflow
\* was cancelled, and the task is still the one of that call.
C33_Witness ==
  /\ last.op = "cancel_workflow" /\ last.from = IDLE
  /\ selected_profile = "amaan"
  /\ current_task = "opening_Firefox"

\* C34: for a plan of n steps the cursor stays within 0..n whatever number of
\* next_step calls is made; the k-th call returns the k-th step for k <= n and
\* None afterwards, the cursor then staying at n; is_complete() is true
\* exactly when the cursor is n, and get_progress() is "cursor/n".
C34_CursorWithinPlan ==
  LET w == current_workflow
      n == Len(w.steps)
  IN /\ 0 <= w.current_step /\ w.current_step <= n
     /\ w.current_step = IF calls <= n THEN calls ELSE n
     /\ last.op = "next_step" =>
          last.msg = IF calls <= n THEN w.steps[calls] ELSE None
     /\ last.op = "is_complete" =>
          ((last.msg = "True") <=> (w.current_step = n))
     /\ last.op = "get_progress" =>
          last.msg = ToString(w.current_step) \o "/" \o ToString(n)

\* The fifth call of next_step on a plan of three steps returned None and
\* the cursor is 3.
C34_Witness ==
  /\ last.op = "next_step" /\ last.msg = None
  /\ calls = 5
  /\ Len(current_workflow.steps) = 3 /\ current_workflow.current_step = 3

\* The last entries of n additions that a history of the size cap keeps,
\* oldest first.
MostRecent(n, cap) ==
  LET kept == IF n < cap THEN n ELSE cap
  IN [i \in 1..kept |-> n - kept + i]

\* C35: after any number of additions conversation_history holds at most
\* max_history (10) entries and ConversationHistory.history at most max_items,
\* and they are the entries added last, in the order they were added.
C35_HistoriesKeepMostRecent ==
  /\ Len(conversation_history) <= 10
  /\ conversation_history = MostRecent(adds.context, 10)
  /\ Len(history) <= max_items
  /\ history = MostRecent(adds.history, max_items)

\* Twelve entries were added to each history, the ConversationHistory being
\* of size 3: the first two and the first nine are gone.
C35_Witness ==
  /\ adds = [context |-> 12, history |-> 12] /\ max_items = 3
  /\ conversation_history = <<3, 4, 5, 6, 7, 8, 9, 10, 11, 12>>
  /\ history = <<10, 11, 12>>

\* C37 as stated: is_connected probes on the first call and whenever at
\* least cache_duration seconds have passed since the last probe, however
\* long that is, and returns the cached result without probing only when
\* fewer have passed.
C37_StepOk ==
  last'.op = "is_connected" =>
    /\ (trace' # <<>>) <=>
         (last_check = NoTime \/ wall - last_check >= cache_duration)
    /\ trace' = <<>> => UNCHANGED <<last_check, last_result>>
    /\ trace' # <<>> => last_check' = wall
C37_ProbesWhenCacheIsOld == [][C37_StepOk]_vars

\* The utterances are processed one at a time in the order they were queued,
\* and a join() returns only when all that was queued before it is processed.
SpeechInOrder ==
  /\ played' = [i \in 1..Len(played') |-> i]
  /\ Len(played') <= Len(played) + 1
  /\ \A c \in Callers :
       (caller[c].pc = "join" /\ caller'[c].pc = "idle") =>
         Len(played) >= caller[c].mark

\* C36 as stated: the worker plays the queued utterances one at a time in the
\* order they were queued; speak(block=True) and wait_until_done() return only
\* after every utterance queued so far has been processed; and every such
\* call returns in the end, also one that overlaps with shutdown().
C36_BlockingCallsReturn ==
  /\ [][SpeechInOrder]_vars
  /\ \A c \in Callers : (caller[c].pc = "join") ~> (caller[c].pc = "idle")

====
